---- MODULE Spec2Model ----
(***************************************************************************)
(* Two-pass 6502 assembler (services/assembler.ts, services/opcodes.ts).   *)
(*                                                                         *)
(* A source is a sequence of lines.  A line is modelled after lexing: an   *)
(* optional leading label and a statement whose operand values are tokens  *)
(* (hex literal with its digit count, decimal literal, identifier,         *)
(* character literal, quoted string).  The regular expressions of the      *)
(* source are modelled by what they accept on those tokens.                *)
(*                                                                         *)
(* A JavaScript number that can exceed 2^31 (a value returned by           *)
(* parseValue) is kept as two limbs: n = hi * 65536 + lo, 0 <= lo < 65536. *)
(***************************************************************************)
EXTENDS Integers, Sequences, FiniteSets, TLC

VARIABLES code, pc, i, labels, parsedLines, currentAddress, j, machineCode, error, result,
          lastIndex,   \* the lastIndex of each shared pattern object of opcodes.ts
          returned     \* the calls that have returned: source and result, in order

vars == <<code, pc, i, labels, parsedLines, currentAddress, j, machineCode, error, result,
          lastIndex, returned>>

(***************************************************************************)
(* Bounds of the model                                                     *)
(***************************************************************************)
MaxLines == 3

\* the number of calls of assemble made one after the other
MaxCalls == 3

\* the number of calls made on two blocks: each alone, then both orders
MaxBlockCalls == 4

(***************************************************************************)
(* Tokens                                                                  *)
(***************************************************************************)
NoVal == [t |-> "none", hi |-> 0, lo |-> 0, digits |-> 0, name |-> "", chars |-> <<>>]

\* $H..H : a hex literal of d digits with value h * 65536 + l
Hex(d, h, l) == [NoVal EXCEPT !.t = "hex", !.digits = d, !.hi = h, !.lo = l]

\* $H..Hcs : a $ literal whose d leading hex digits, of value h * 65536 + l,
\* are followed by the characters cs, the first of which is no hex digit
HexThen(d, h, l, cs) == [Hex(d, h, l) EXCEPT !.chars = cs]

\* D..D : a decimal literal of d digits with value h * 65536 + l
Dec(d, h, l) == [NoVal EXCEPT !.t = "dec", !.digits = d, !.hi = h, !.lo = l]

\* an identifier
Ident(n) == [NoVal EXCEPT !.t = "id", !.name = n]

\* 'c' or "c" : a three-character literal with middle character c
Chr(c) == [NoVal EXCEPT !.t = "chr", !.chars = <<c>>]

\* "..." : a closed quoted string, given by its characters ("e'" is
\* e-acute, "EUR" is the euro sign)
Str(cs) == [NoVal EXCEPT !.t = "str", !.chars = cs]

\* "... : a quoted string whose closing quote is missing
OpenStr(cs) == [NoVal EXCEPT !.t = "openstr", !.chars = cs]

\* text that is none of the above
BadVal == [NoVal EXCEPT !.t = "bad"]

\* the value of a literal token as an integer (tokens below 2^31 only)
ValInt(v) == v.hi * 65536 + v.lo

(***************************************************************************)
(* Operands: the operand text of an instruction by shape                   *)
(*   none ""   imm "#v"   immlo "#<v"   immhi "#>v"   bare "v"             *)
(*   x "v,X"   y "v,Y"   indx "(v,X)"   indy "(v),Y"   ind "(v)"           *)
(***************************************************************************)
Operand(s, v) == [shape |-> s, v |-> v]

NoOperand == Operand("none", NoVal)

(***************************************************************************)
(* Lines                                                                   *)
(*   label : the identifier of a leading "ident:" or "" when absent        *)
(*   k     : "none" (nothing after the label / comment / blank line),      *)
(*           "org", "res", "byte", "word", "dword", "ascii", "asciiz",     *)
(*           "instr", "junk" (a statement no pattern recognises)           *)
(*   an origin statement is the text  before keyword $digits after  with   *)
(*   form   : ".org" or "*" (the keyword, "* =" for the latter)            *)
(*   before : "" or "x " (characters in front of the keyword)              *)
(*   args   : the token after the keyword, a hex literal when it starts    *)
(*            with $ and hex digits                                        *)
(*   after  : "" or " x" (characters behind the digits, no hex digit)      *)
(*   v      : the value of the digits as written                           *)
(***************************************************************************)
NoStmt == [k |-> "none", v |-> 0, args |-> <<>>, mn |-> "", op |-> NoOperand,
           form |-> "", before |-> "", after |-> ""]

Line(l, s) == [label |-> l, stmt |-> s]

Comment == Line("", NoStmt)

LabelOnly(l) == Line(l, NoStmt)

\* an origin statement as written
OrgText(l, form, before, tok, after) ==
  Line(l, [NoStmt EXCEPT !.k = "org", !.form = form, !.before = before, !.args = <<tok>>,
                         !.after = after, !.v = IF tok.t = "hex" THEN ValInt(tok) ELSE 0])

\* .org $HHHH
Org(l, a) == OrgText(l, ".org", "", Hex(4, 0, a), "")

Res(l, v) == Line(l, [NoStmt EXCEPT !.k = "res", !.args = <<v>>])

Data(l, d, vs) == Line(l, [NoStmt EXCEPT !.k = d, !.args = vs])

Instr(l, m, o) == Line(l, [NoStmt EXCEPT !.k = "instr", !.mn = m, !.op = o])

\* a line given as its characters: " ", "TAB", ";" and the letter "x"
Raw(cs) == Line("", [NoStmt EXCEPT !.k = "raw", !.args = cs])

Junk(l) == Line(l, [NoStmt EXCEPT !.k = "junk"])

(***************************************************************************)
(* Errors.  Null is the error of a successful run.                         *)
(*   kind : dup, notfound, range, badvalue, mode, syntax, unterminated,    *)
(*          empty, format, internal                                        *)
(*   closing : the words that introduce the quoted source line             *)
(*   originalLine : the source line quoted (an empty line when none is)    *)
(***************************************************************************)
Null == [kind |-> "null", line |-> 0, pass |-> 0, name |-> "", offset |-> 0,
         closing |-> "", originalLine |-> Comment]

Err(k, n) == [Null EXCEPT !.kind = k, !.name = n]

ErrOff(k, n, o) == [Null EXCEPT !.kind = k, !.name = n, !.offset = o]

At(e, ln, p) == [e EXCEPT !.line = ln, !.pass = p]

(***************************************************************************)
(* JavaScript numbers                                                      *)
(***************************************************************************)
\* a non-negative integer below 2^31 as limbs
ToNum(a) == [hi |-> a \div 65536, lo |-> a % 65536]

NumInt(n) == n.hi * 65536 + n.lo

\* a byte test nothing exceeds
GtFFNever(n) == FALSE

\* n > 0xFF, n > 0xFFFF, n > 0xFFFFFFFF
GtFF(n) == n.hi > 0 \/ n.lo > 255

GtFFFF(n) == n.hi > 0

GtFFFFFFFF(n) == n.hi > 65535

\* ToInt32: the high limb of the 32-bit two's complement reading
Int32Hi(n) == LET h == n.hi % 65536 IN IF h >= 32768 THEN h - 65536 ELSE h

\* n >> k for k in {8, 16, 24}: ToInt32 then arithmetic shift
Sar(n, k) ==
  CASE k = 8  -> Int32Hi(n) * 256 + (n.lo \div 256)
    [] k = 16 -> Int32Hi(n)
    [] k = 24 -> Int32Hi(n) \div 256

\* x & 0xFF on a 32-bit integer
And255(x) == x % 256

\* n & 0xFF on a number: only the low limb matters
NumAnd255(n) == n.lo % 256

(***************************************************************************)
(* parseValue                                                              *)
(***************************************************************************)
PVOk(n) == [ok |-> TRUE, n |-> n, err |-> Null]

PVErr(e) == [ok |-> FALSE, n |-> ToNum(0), err |-> e]

\* String.prototype.charCodeAt on the characters the model writes: the UTF-16
\* code unit, which is above 255 for a character outside Latin-1
charCodeAt(c) ==
  CASE c = "H" -> 72
    [] c = "i" -> 105
    [] c = "A" -> 65
    [] c = "~" -> 126
    [] c = "e'" -> 233
    [] c = "EUR" -> 8364

\* labels.get(s) !== undefined
Has(lbls, s) == s \in DOMAIN lbls

\* a value parser for which a label the table lacks reads as 0
parseValueUnboundZero(v, lbls) ==
  IF v.t = "hex"
  THEN IF v.digits = 0 THEN PVErr(Err("badvalue", "")) ELSE PVOk([hi |-> v.hi, lo |-> v.lo])
  ELSE IF v.t = "dec"
  THEN PVOk([hi |-> v.hi, lo |-> v.lo])
  ELSE IF v.t = "id"
  THEN IF Has(lbls, v.name) THEN PVOk(ToNum(lbls[v.name])) ELSE PVOk(ToNum(0))
  ELSE IF v.t = "chr"
  THEN PVOk(ToNum(charCodeAt(v.chars[1])))
  ELSE PVErr(Err("badvalue", ""))

\* parseInt(s.substring(1), 16) reads the leading hex digits and stops at the
\* first character that is none: NaN only when there is no leading digit
parseValue(v, lbls) ==
  IF v.t = "hex"
  THEN IF v.digits = 0 THEN PVErr(Err("badvalue", "")) ELSE PVOk([hi |-> v.hi, lo |-> v.lo])
  ELSE IF v.t = "dec"
  THEN PVOk([hi |-> v.hi, lo |-> v.lo])
  ELSE IF v.t = "id"
  THEN IF Has(lbls, v.name) THEN PVOk(ToNum(lbls[v.name])) ELSE PVErr(Err("notfound", v.name))
  ELSE IF v.t = "chr"
  THEN PVOk(ToNum(charCodeAt(v.chars[1])))
  ELSE PVErr(Err("badvalue", ""))

(***************************************************************************)
(* parseMixedValues: the token list of .ascii / .asciiz                    *)
(***************************************************************************)
\* the bytes of one quoted string: charCodeAt of every character
StringBytes(cs) == [k \in 1..Len(cs) |-> charCodeAt(cs[k])]

RECURSIVE parseMixedFrom(_, _, _, _)
parseMixedFrom(toks, k, lbls, acc) ==
  IF k > Len(toks) THEN [bytes |-> acc, error |-> Null]
  ELSE LET tk == toks[k] IN
    IF tk.t = "str" THEN parseMixedFrom(toks, k + 1, lbls, acc \o StringBytes(tk.chars))
    ELSE IF tk.t = "openstr" THEN [bytes |-> <<>>, error |-> Err("unterminated", "")]
    ELSE IF tk.t = "none" THEN [bytes |-> <<>>, error |-> Err("empty", "")]
    ELSE LET value == parseValue(tk, lbls) IN
      IF ~value.ok THEN [bytes |-> <<>>, error |-> value.err]
      ELSE IF GtFF(value.n) THEN [bytes |-> <<>>, error |-> Err("range", tk.name)]
      ELSE parseMixedFrom(toks, k + 1, lbls, Append(acc, NumInt(value.n)))

parseMixedValues(toks, lbls) == parseMixedFrom(toks, 1, lbls, <<>>)

(***************************************************************************)
(* Operand resolvers                                                       *)
(***************************************************************************)
ROk(bs) == [bytes |-> bs, error |-> Null]

RErr(e) == [bytes |-> <<>>, error |-> e]

\* parseInt of the text behind $ is NaN when it starts with no hex digit
IsNaN(v) == v.t = "hex" /\ v.digits = 0

resolveImplied(op, lbls, addr) == ROk(<<>>)

resolveAccumulator(op, lbls, addr) ==
  IF op.shape = "none" \/ (op.shape = "bare" /\ op.v.t = "id" /\ op.v.name \in {"A", "a"})
  THEN ROk(<<>>)
  ELSE RErr(Err("format", ""))

\* a parser of the value behind #< and #> that refuses what exceeds a byte
parseNumericOrLabelByte(v, lbls) ==
  IF v.t = "hex"
  THEN IF v.digits = 0 \/ ValInt(v) > 255 THEN PVErr(Err("badvalue", "")) ELSE PVOk(ToNum(ValInt(v)))
  ELSE IF v.t = "dec" THEN IF ValInt(v) > 255 THEN PVErr(Err("range", "")) ELSE PVOk(ToNum(ValInt(v)))
  ELSE IF v.t = "id"
  THEN IF Has(lbls, v.name) /\ lbls[v.name] <= 255 THEN PVOk(ToNum(lbls[v.name]))
       ELSE PVErr(Err("notfound", v.name))
  ELSE PVErr(Err("format", ""))

\* parseNumericOrLabel of resolveImmediate
parseNumericOrLabel(v, lbls) ==
  IF v.t = "hex"
  THEN IF v.digits = 0 THEN PVErr(Err("badvalue", "")) ELSE PVOk(ToNum(ValInt(v)))
  ELSE IF v.t = "dec" THEN PVOk(ToNum(ValInt(v)))
  ELSE IF v.t = "id"
  THEN IF Has(lbls, v.name) THEN PVOk(ToNum(lbls[v.name])) ELSE PVErr(Err("notfound", v.name))
  ELSE PVErr(Err("format", ""))

\* the final range check of resolveImmediate
ImmediateByte(finalValue, nan) ==
  IF nan \/ finalValue < 0 \/ finalValue > 255 THEN RErr(Err("range", "")) ELSE ROk(<<finalValue>>)

resolveImmediate(op, lbls, addr) ==
  IF op.shape = "immlo"
  THEN LET r == parseNumericOrLabel(op.v, lbls) IN
       IF ~r.ok THEN RErr(r.err) ELSE ImmediateByte(And255(NumInt(r.n)), FALSE)
  ELSE IF op.shape = "immhi"
  THEN LET r == parseNumericOrLabel(op.v, lbls) IN
       IF ~r.ok THEN RErr(r.err) ELSE ImmediateByte(And255(NumInt(r.n) \div 256), FALSE)
  ELSE IF op.shape = "imm" /\ op.v.t = "hex"
  THEN ImmediateByte(ValInt(op.v), IsNaN(op.v))
  ELSE IF op.shape = "imm"
  THEN IF op.v.t = "dec" THEN ImmediateByte(ValInt(op.v), FALSE)
       ELSE IF op.v.t = "id"
       THEN IF Has(lbls, op.v.name) THEN ImmediateByte(lbls[op.v.name], FALSE)
            ELSE RErr(Err("notfound", op.v.name))
       ELSE RErr(Err("format", ""))
  ELSE RErr(Err("format", ""))

\* an address part whose unbound label reads as 0
AddressPartDefaultZero(v, lbls, decimalAllowed) ==
  IF v.t = "id"
  THEN [ok |-> TRUE, value |-> IF Has(lbls, v.name) THEN lbls[v.name] ELSE 0, nan |-> FALSE, err |-> Null]
  ELSE [ok |-> TRUE, value |-> ValInt(v), nan |-> IsNaN(v), err |-> Null]

\* the value an address part denotes: $hex, decimal (when allowed) or label
AddressPart(v, lbls, decimalAllowed) ==
  IF v.t = "hex" THEN [ok |-> TRUE, value |-> ValInt(v), nan |-> IsNaN(v), err |-> Null]
  ELSE IF v.t = "dec" /\ decimalAllowed THEN [ok |-> TRUE, value |-> ValInt(v), nan |-> FALSE, err |-> Null]
  ELSE IF v.t = "id"
  THEN IF Has(lbls, v.name) THEN [ok |-> TRUE, value |-> lbls[v.name], nan |-> FALSE, err |-> Null]
       ELSE [ok |-> FALSE, value |-> 0, nan |-> FALSE, err |-> Err("notfound", v.name)]
  ELSE [ok |-> FALSE, value |-> 0, nan |-> FALSE, err |-> Err("format", "")]

\* a zero-page byte cut to its low eight bits instead of range-checked
ZeroPageBytesTruncating(a, name) == ROk(<<And255(a.value)>>)

\* value > 0xFF is an error, else the one byte
ZeroPageBytes(a, name) ==
  IF a.nan \/ a.value < 0 \/ a.value > 255 THEN RErr(Err("range", name)) ELSE ROk(<<a.value>>)

\* an absolute address returned as its low byte only
AbsoluteBytesLowOnly(a, name) ==
  IF a.nan \/ a.value < 0 \/ a.value > 65535 THEN RErr(Err("range", name))
  ELSE ROk(<<And255(a.value)>>)

\* value > 0xFFFF is an error, else low byte, high byte
AbsoluteBytes(a, name) ==
  IF a.nan \/ a.value < 0 \/ a.value > 65535 THEN RErr(Err("range", name))
  ELSE ROk(<<And255(a.value), And255(a.value \div 256)>>)

resolveZeroPage(op, lbls, addr) ==
  IF op.shape # "bare" THEN RErr(Err("format", ""))
  ELSE LET a == AddressPart(op.v, lbls, TRUE) IN
       IF ~a.ok THEN RErr(a.err) ELSE ZeroPageBytes(a, op.v.name)

resolveAbsolute(op, lbls, addr) ==
  IF op.shape # "bare" THEN RErr(Err("format", ""))
  ELSE LET a == AddressPart(op.v, lbls, TRUE) IN
       IF ~a.ok THEN RErr(a.err) ELSE AbsoluteBytes(a, op.v.name)

resolveZeroPageIndexed(indexedChar, op, lbls, addr) ==
  IF op.shape # indexedChar THEN RErr(Err("format", ""))
  ELSE LET a == AddressPart(op.v, lbls, TRUE) IN
       IF ~a.ok THEN RErr(a.err) ELSE ZeroPageBytes(a, op.v.name)

resolveAbsoluteIndexed(indexedChar, op, lbls, addr) ==
  IF op.shape # indexedChar THEN RErr(Err("format", ""))
  ELSE LET a == AddressPart(op.v, lbls, TRUE) IN
       IF ~a.ok THEN RErr(a.err) ELSE AbsoluteBytes(a, op.v.name)

\* the match of ($hex | label) inside the parentheses
IndirectPart(v) == (v.t = "hex" /\ v.digits >= 1 /\ v.chars = <<>>) \/ v.t = "id"

resolveIndirectX(op, lbls, addr) ==
  IF ~(op.shape = "indx" /\ IndirectPart(op.v)) THEN RErr(Err("format", ""))
  ELSE LET a == AddressPart(op.v, lbls, FALSE) IN
       IF ~a.ok THEN RErr(a.err) ELSE ZeroPageBytes(a, op.v.name)

resolveIndirectY(op, lbls, addr) ==
  IF ~(op.shape = "indy" /\ IndirectPart(op.v)) THEN RErr(Err("format", ""))
  ELSE LET a == AddressPart(op.v, lbls, FALSE) IN
       IF ~a.ok THEN RErr(a.err) ELSE ZeroPageBytes(a, op.v.name)

resolveIndirectAbsolute(op, lbls, addr) ==
  IF ~(op.shape = "ind" /\ IndirectPart(op.v)) THEN RErr(Err("format", ""))
  ELSE LET a == AddressPart(op.v, lbls, FALSE) IN
       IF ~a.ok THEN RErr(a.err) ELSE AbsoluteBytes(a, op.v.name)

\* offset < -128 || offset > 127
BranchOutOfRange(offset) == offset < -128 \/ offset > 127

\* an offset taken from the branch's own address
BranchBaseOwnAddress(currentInstructionAddress) == currentInstructionAddress

\* the instruction size added to the branch's own address
BranchBase(currentInstructionAddress) == currentInstructionAddress + 2

resolveRelativeLabel(op, lbls, currentInstructionAddress) ==
  IF ~Has(lbls, op.v.name) THEN RErr(Err("notfound", op.v.name))
  ELSE LET targetAddress == lbls[op.v.name]
           nextInstructionAddress == BranchBase(currentInstructionAddress)
           offset == targetAddress - nextInstructionAddress
       IN IF BranchOutOfRange(offset) THEN RErr(ErrOff("range", op.v.name, offset))
          ELSE ROk(<<And255(offset)>>)

\* dispatch on the resolver a variant carries
Resolve(variant, op, lbls, addr) ==
  CASE variant.resolveOperand = "resolveImplied" -> resolveImplied(op, lbls, addr)
    [] variant.resolveOperand = "resolveAccumulator" -> resolveAccumulator(op, lbls, addr)
    [] variant.resolveOperand = "resolveImmediate" -> resolveImmediate(op, lbls, addr)
    [] variant.resolveOperand = "resolveZeroPage" -> resolveZeroPage(op, lbls, addr)
    [] variant.resolveOperand = "resolveAbsolute" -> resolveAbsolute(op, lbls, addr)
    [] variant.resolveOperand = "resolveZeroPageIndexedX" -> resolveZeroPageIndexed("x", op, lbls, addr)
    [] variant.resolveOperand = "resolveZeroPageIndexedY" -> resolveZeroPageIndexed("y", op, lbls, addr)
    [] variant.resolveOperand = "resolveAbsoluteIndexedX" -> resolveAbsoluteIndexed("x", op, lbls, addr)
    [] variant.resolveOperand = "resolveAbsoluteIndexedY" -> resolveAbsoluteIndexed("y", op, lbls, addr)
    [] variant.resolveOperand = "resolveIndirectX" -> resolveIndirectX(op, lbls, addr)
    [] variant.resolveOperand = "resolveIndirectY" -> resolveIndirectY(op, lbls, addr)
    [] variant.resolveOperand = "resolveIndirectAbsolute" -> resolveIndirectAbsolute(op, lbls, addr)
    [] variant.resolveOperand = "resolveRelativeLabel" -> resolveRelativeLabel(op, lbls, addr)

(***************************************************************************)
(* The operand patterns R and the instruction table                        *)
(***************************************************************************)
\* \$[0-9A-Fa-f]{lo,hi} up to the end of the value: nothing behind the digits
IsHex(v, lo, hi) == v.t = "hex" /\ v.digits >= lo /\ v.digits <= hi /\ v.chars = <<>>

IsDec(v, lo, hi) == v.t = "dec" /\ v.digits >= lo /\ v.digits <= hi

IsIdent(v) == v.t = "id"

\* regex.test(operand)
Matches(regex, op) ==
  CASE regex = "ACCUMULATOR" -> op.shape = "none" \/ (op.shape = "bare" /\ IsIdent(op.v) /\ op.v.name \in {"A", "a"})
    [] regex = "IMMEDIATE"   -> op.shape \in {"imm", "immlo", "immhi"}
    [] regex = "ZEROPAGE_X"  -> op.shape = "x" /\ (IsHex(op.v, 1, 2) \/ IsDec(op.v, 1, 3))
    [] regex = "ZEROPAGE_Y"  -> op.shape = "y" /\ (IsHex(op.v, 1, 2) \/ IsDec(op.v, 1, 3))
    [] regex = "ABSOLUTE_X"  -> op.shape = "x" /\ (IsHex(op.v, 3, 4) \/ IsIdent(op.v))
    [] regex = "ABSOLUTE_Y"  -> op.shape = "y" /\ (IsHex(op.v, 3, 4) \/ IsIdent(op.v))
    [] regex = "INDIRECT_X"  -> op.shape = "indx" /\ IndirectPart(op.v)
    [] regex = "INDIRECT_Y"  -> op.shape = "indy" /\ IndirectPart(op.v)
    [] regex = "INDIRECT_ABS" -> op.shape = "ind" /\ IndirectPart(op.v)
    [] regex = "ZEROPAGE"    -> op.shape = "bare" /\ IsHex(op.v, 1, 2)
    [] regex = "ABSOLUTE"    -> op.shape = "bare" /\ IsHex(op.v, 3, 4)
    [] regex = "LABEL"       -> op.shape = "bare" /\ IsIdent(op.v)
    [] regex = "RELATIVE"    -> op.shape = "bare" /\ IsIdent(op.v)
    [] regex = "IMPLIED"     -> op.shape = "none"
    [] regex = "LABEL_X"     -> op.shape = "x" /\ IsIdent(op.v)
    [] regex = "LABEL_Y"     -> op.shape = "y" /\ IsIdent(op.v)

\* the shared pattern objects
RegexObjects ==
  {"ACCUMULATOR", "IMMEDIATE", "ZEROPAGE_X", "ZEROPAGE_Y", "ABSOLUTE_X", "ABSOLUTE_Y", "INDIRECT_X",
   "INDIRECT_Y", "INDIRECT_ABS", "ZEROPAGE", "ABSOLUTE", "LABEL", "RELATIVE", "IMPLIED", "LABEL_X", "LABEL_Y"}

\* every pattern written with the g flag
FlagsAllGlobal(regex) ==
  (IF regex \in {"IMMEDIATE", "ZEROPAGE", "ABSOLUTE", "LABEL", "RELATIVE", "IMPLIED"} THEN {} ELSE {"i"}) \cup {"g"}

\* the flags each pattern is written with
Flags(regex) ==
  IF regex \in {"IMMEDIATE", "ZEROPAGE", "ABSOLUTE", "LABEL", "RELATIVE", "IMPLIED"} THEN {} ELSE {"i"}

\* the index just past an operand text: 0 for the empty text
EndOf(op) == IF op.shape = "none" THEN 0 ELSE 1

\* regex.test(operand) on a pattern object whose lastIndex is li[regex]: a
\* global or sticky pattern starts at lastIndex and leaves the end of the
\* match there (0 after a failure); any other starts at 0 and leaves
\* lastIndex alone.  Every pattern is anchored at the start of the text.
test(regex, op, li) ==
  IF Flags(regex) \cap {"g", "y"} # {}
  THEN IF li[regex] = 0 /\ Matches(regex, op)
       THEN [matched |-> TRUE, lastIndex |-> [li EXCEPT ![regex] = EndOf(op)]]
       ELSE [matched |-> FALSE, lastIndex |-> [li EXCEPT ![regex] = 0]]
  ELSE [matched |-> Matches(regex, op), lastIndex |-> li]

\* an opcode the opcodes object leaves undefined
U == -1

NoOpcodes == [imm |-> U, zp |-> U, zpx |-> U, zpy |-> U, abs |-> U, abx |-> U, aby |-> U,
              indx |-> U, indy |-> U, impl |-> U, acc |-> U]

Variant(m, r, o, sz, f) == [mnemonic |-> m, regex |-> r, opcode |-> o, size |-> sz, resolveOperand |-> f]

\* variants.push(...) under if (opcode !== undefined)
Push(o, m, r, sz, f) == IF o # U THEN <<Variant(m, r, o, sz, f)>> ELSE <<>>

\* the label variants for zero page and absolute
LabelVariants(m, o) ==
  IF o.zp # U /\ o.abs # U
  THEN <<Variant(m, "LABEL", o.zp, 2, "resolveZeroPage"), Variant(m, "LABEL", o.abs, 3, "resolveAbsolute")>>
  ELSE IF o.zp # U THEN <<Variant(m, "LABEL", o.zp, 2, "resolveZeroPage")>>
  ELSE IF o.abs # U THEN <<Variant(m, "LABEL", o.abs, 3, "resolveAbsolute")>>
  ELSE <<>>

\* the label variants for indexed addressing
IndexedLabelVariants(m, o) ==
  (IF o.zpx # U /\ o.abx # U
   THEN <<Variant(m, "LABEL_X", o.zpx, 2, "resolveZeroPageIndexedX"),
          Variant(m, "LABEL_X", o.abx, 3, "resolveAbsoluteIndexedX")>>
   ELSE <<>>)
  \o
  (IF o.zpy # U /\ o.aby # U
   THEN <<Variant(m, "LABEL_Y", o.zpy, 2, "resolveZeroPageIndexedY"),
          Variant(m, "LABEL_Y", o.aby, 3, "resolveAbsoluteIndexedY")>>
   ELSE <<>>)

createInstructionVariants(m, o) ==
     Push(o.imm, m, "IMMEDIATE", 2, "resolveImmediate")
  \o Push(o.indx, m, "INDIRECT_X", 2, "resolveIndirectX")
  \o Push(o.indy, m, "INDIRECT_Y", 2, "resolveIndirectY")
  \o Push(o.zpx, m, "ZEROPAGE_X", 2, "resolveZeroPageIndexedX")
  \o Push(o.zpy, m, "ZEROPAGE_Y", 2, "resolveZeroPageIndexedY")
  \o Push(o.abx, m, "ABSOLUTE_X", 3, "resolveAbsoluteIndexedX")
  \o Push(o.aby, m, "ABSOLUTE_Y", 3, "resolveAbsoluteIndexedY")
  \o Push(o.zp, m, "ZEROPAGE", 2, "resolveZeroPage")
  \o Push(o.abs, m, "ABSOLUTE", 3, "resolveAbsolute")
  \o Push(o.impl, m, "IMPLIED", 1, "resolveImplied")
  \o Push(o.acc, m, "ACCUMULATOR", 1, "resolveAccumulator")
  \o LabelVariants(m, o)
  \o IndexedLabelVariants(m, o)

Impl(m, o) == createInstructionVariants(m, [NoOpcodes EXCEPT !.impl = o])

Branch(m, o) == <<Variant(m, "RELATIVE", o, 2, "resolveRelativeLabel")>>

\* imm, zp, zpx, abs, abx, aby, indx, indy: the eight modes of LDA, ADC, ...
Full8(m, imm, zp, zpx, abs, abx, aby, indx, indy) ==
  createInstructionVariants(m, [NoOpcodes EXCEPT !.imm = imm, !.zp = zp, !.zpx = zpx, !.abs = abs,
                                  !.abx = abx, !.aby = aby, !.indx = indx, !.indy = indy])

\* acc, zp, zpx, abs, abx: the five modes of the shifts and rotates
Shift(m, acc, zp, zpx, abs, abx) ==
  createInstructionVariants(m, [NoOpcodes EXCEPT !.acc = acc, !.zp = zp, !.zpx = zpx, !.abs = abs, !.abx = abx])

instructionSet ==
     Full8("LDA", \hA9, \hA5, \hB5, \hAD, \hBD, \hB9, \hA1, \hB1)
  \o createInstructionVariants("LDX", [NoOpcodes EXCEPT !.imm = \hA2, !.zp = \hA6, !.zpy = \hB6, !.abs = \hAE, !.aby = \hBE])
  \o createInstructionVariants("LDY", [NoOpcodes EXCEPT !.imm = \hA0, !.zp = \hA4, !.zpx = \hB4, !.abs = \hAC, !.abx = \hBC])
  \o createInstructionVariants("STA", [NoOpcodes EXCEPT !.zp = \h85, !.zpx = \h95, !.abs = \h8D, !.abx = \h9D, !.aby = \h99, !.indx = \h81, !.indy = \h91])
  \o createInstructionVariants("STX", [NoOpcodes EXCEPT !.zp = \h86, !.zpy = \h96, !.abs = \h8E])
  \o createInstructionVariants("STY", [NoOpcodes EXCEPT !.zp = \h84, !.zpx = \h94, !.abs = \h8C])
  \o Impl("PHA", \h48) \o Impl("PLA", \h68) \o Impl("PHP", \h08) \o Impl("PLP", \h28)
  \o createInstructionVariants("JMP", [NoOpcodes EXCEPT !.abs = \h4C])
  \o <<Variant("JMP", "INDIRECT_ABS", \h6C, 3, "resolveIndirectAbsolute")>>
  \o createInstructionVariants("JSR", [NoOpcodes EXCEPT !.abs = \h20])
  \o Impl("RTS", \h60) \o Impl("BRK", \h00) \o Impl("NOP", \hEA)
  \o Branch("BPL", \h10) \o Branch("BMI", \h30) \o Branch("BVC", \h50) \o Branch("BVS", \h70)
  \o Branch("BCC", \h90) \o Branch("BCS", \hB0) \o Branch("BNE", \hD0) \o Branch("BEQ", \hF0)
  \o Full8("ADC", \h69, \h65, \h75, \h6D, \h7D, \h79, \h61, \h71)
  \o Full8("SBC", \hE9, \hE5, \hF5, \hED, \hFD, \hF9, \hE1, \hF1)
  \o Full8("CMP", \hC9, \hC5, \hD5, \hCD, \hDD, \hD9, \hC1, \hD1)
  \o createInstructionVariants("CPX", [NoOpcodes EXCEPT !.imm = \hE0, !.zp = \hE4, !.abs = \hEC])
  \o createInstructionVariants("CPY", [NoOpcodes EXCEPT !.imm = \hC0, !.zp = \hC4, !.abs = \hCC])
  \o createInstructionVariants("INC", [NoOpcodes EXCEPT !.zp = \hE6, !.zpx = \hF6, !.abs = \hEE, !.abx = \hFE])
  \o createInstructionVariants("DEC", [NoOpcodes EXCEPT !.zp = \hC6, !.zpx = \hD6, !.abs = \hCE, !.abx = \hDE])
  \o Impl("INX", \hE8) \o Impl("INY", \hC8) \o Impl("DEX", \hCA) \o Impl("DEY", \h88)
  \o Shift("ASL", \h0A, \h06, \h16, \h0E, \h1E)
  \o Shift("LSR", \h4A, \h46, \h56, \h4E, \h5E)
  \o Shift("ROL", \h2A, \h26, \h36, \h2E, \h3E)
  \o Shift("ROR", \h6A, \h66, \h76, \h6E, \h7E)
  \o Full8("AND", \h29, \h25, \h35, \h2D, \h3D, \h39, \h21, \h31)
  \o Full8("EOR", \h49, \h45, \h55, \h4D, \h5D, \h59, \h41, \h51)
  \o Full8("ORA", \h09, \h05, \h15, \h0D, \h1D, \h19, \h01, \h11)
  \o createInstructionVariants("BIT", [NoOpcodes EXCEPT !.zp = \h24, !.abs = \h2C])
  \o Impl("CLC", \h18) \o Impl("SEC", \h38) \o Impl("CLI", \h58) \o Impl("SEI", \h78)
  \o Impl("CLD", \hD8) \o Impl("SED", \hF8) \o Impl("CLV", \hB8)
  \o Impl("TAX", \hAA) \o Impl("TXA", \h8A) \o Impl("TAY", \hA8) \o Impl("TYA", \h98)
  \o Impl("TSX", \hBA) \o Impl("TXS", \h9A)

(***************************************************************************)
(* Parsed line records                                                     *)
(***************************************************************************)
NoVariant == Variant("", "", U, 0, "")

NoPL == [lineNumber |-> 0, originalLine |-> Comment, address |-> 0, type |-> "", directive |-> "", label |-> "", size |-> 0,
         values |-> <<>>, valueStrings |-> <<>>, mnemonic |-> "", operand |-> NoOperand,
         variant |-> NoVariant, candidateVariants |-> <<>>]

PL(ln, addr, ty) == [NoPL EXCEPT !.lineNumber = ln, !.address = addr, !.type = ty]

Directive(ln, addr, d, l) == [PL(ln, addr, "directive") EXCEPT !.directive = d, !.label = l]

(***************************************************************************)
(* Pass 1: one iteration of the loop over the source lines                 *)
(***************************************************************************)
\* the outcome of an iteration: an error, or the new symbol table, the
\* records pushed and the new location counter
P1Err(e, ln, lbls) == [error |-> [At(e, ln, 1) EXCEPT !.closing = "Original line"], labels |-> lbls, recs |-> <<>>, addr |-> 0]

P1Ok(lbls, recs, addr) == [error |-> Null, labels |-> lbls, recs |-> recs, addr |-> addr]

\* labels.set(name, addr)
Set(lbls, name, addr) == [n \in DOMAIN lbls \cup {name} |-> IF n = name THEN addr ELSE lbls[n]]

\* the byte values of .byte: every element parsed and range-checked in order
RECURSIVE byteValuesFrom(_, _, _, _)
byteValuesFrom(vs, k, lbls, acc) ==
  IF k > Len(vs) THEN [bytes |-> acc, error |-> Null]
  ELSE LET byteVal == parseValue(vs[k], lbls) IN
    IF ~byteVal.ok THEN [bytes |-> <<>>, error |-> byteVal.err]
    ELSE IF GtFF(byteVal.n) THEN [bytes |-> <<>>, error |-> Err("range", vs[k].name)]
    ELSE byteValuesFrom(vs, k + 1, lbls, Append(acc, NumInt(byteVal.n)))

\* a filter that tests the operand pattern only
candidateVariantsOfAnyMnemonic(mnemonic, operand) ==
  LET Test(variant) == Matches(variant.regex, operand)
  IN SelectSeq(instructionSet, Test)

\* the spellings of mnemonics written with lower-case letters, each with its
\* spelling in upper case
LowerCaseSpellings ==
  { <<"lda", "LDA">>, <<"Lda", "LDA">>, <<"nop", "NOP">>, <<"Nop", "NOP">>, <<"nOP", "NOP">>, <<"jmp", "JMP">>,
    <<"Jmp", "JMP">>, <<"bne", "BNE">>, <<"xyz", "XYZ">>, <<"Xyz", "XYZ">> }

\* a mnemonic taken as it is spelled
toUpperCaseNot(s) == s

\* instructionMatch[1].toUpperCase()
toUpperCase(s) ==
  IF \E c \in LowerCaseSpellings : c[1] = s
  THEN (CHOOSE c \in LowerCaseSpellings : c[1] = s)[2]
  ELSE s

\* the entries of the table the filter tests a pattern of: with &&, those of
\* the mnemonic only
variantsOf(mnemonic) ==
  LET Same(variant) == variant.mnemonic = mnemonic IN SelectSeq(instructionSet, Same)

\* instructionSet.filter(variant => variant.mnemonic === mnemonic && variant.regex.test(operand)),
\* from the k-th entry of the mnemonic on: the variants kept and the
\* lastIndex the tests leave
RECURSIVE filterFrom(_, _, _, _, _)
filterFrom(variants, k, operand, li, kept) ==
  IF k > Len(variants) THEN [candidateVariants |-> kept, lastIndex |-> li]
  ELSE LET t == test(variants[k].regex, operand, li) IN
       filterFrom(variants, k + 1, operand, t.lastIndex,
                  IF t.matched THEN Append(kept, variants[k]) ELSE kept)

candidateVariantsOf(mnemonic, operand) ==
  filterFrom(variantsOf(mnemonic), 1, operand, lastIndex, <<>>).candidateVariants

\* the lastIndex of the shared patterns after the iteration on a line: the
\* filter runs when the line reaches the instruction branch
lastIndexAfter(line, lbls) ==
  IF line.stmt.k = "instr" /\ ~(line.label # "" /\ Has(lbls, line.label))
  THEN filterFrom(variantsOf(toUpperCase(line.stmt.mn)), 1, line.stmt.op, lastIndex, <<>>).lastIndex
  ELSE lastIndex

\* instructionFound: the first candidate, whether there is one or several
instructionFound(candidateVariants, operand, lbls) == candidateVariants[1]

\* parseInt(digits, 16) of the at most four hex digits a pattern captures
\* greedily from a literal of up to five
CapturedDigits(tok) == IF tok.digits <= 4 THEN ValInt(tok) ELSE ValInt(tok) \div 16

NoMatch == [matched |-> FALSE, value |-> 0]

\* contentAfterLabel.match(ORG_REGEX_FULL): the "* =" alternative is anchored
\* at the start only, the ".org" alternative at the end only
matchOrgFull(stmt) ==
  LET tok == stmt.args[1] IN
  IF tok.t # "hex" \/ tok.digits = 0 THEN NoMatch
  ELSE IF stmt.form = "*" /\ stmt.before = ""
  THEN [matched |-> TRUE, value |-> CapturedDigits(tok)]
  ELSE IF stmt.form = ".org" /\ stmt.after = "" /\ tok.digits <= 4
  THEN [matched |-> TRUE, value |-> ValInt(tok)]
  ELSE NoMatch

\* contentAfterLabel.match(ORG_REGEX_PART) || contentAfterLabel.match(STAR_ORG_REGEX_PART):
\* both anchored at the start and at the end
matchOrgPart(stmt) ==
  LET tok == stmt.args[1] IN
  IF tok.t = "hex" /\ tok.digits >= 1 /\ tok.digits <= 4 /\ stmt.before = "" /\ stmt.after = ""
  THEN [matched |-> TRUE, value |-> ValInt(tok)]
  ELSE NoMatch

\* the origin match tried on a line without / with a leading label
matchOrg(stmt, label) == IF label = "" THEN matchOrgFull(stmt) ELSE matchOrgPart(stmt)

\* an origin taken as an offset from the location counter
originValueRelative(addr, literal) == addr + literal

\* currentAddress = parseInt(..., 16): the literal, whatever the counter was
originValue(addr, literal) == literal

\* the part of the iteration after the label has been processed
Pass1Statement(stmt, ln, label, lbls, recs, addr) ==
  CASE stmt.k = "none" -> P1Ok(lbls, recs, addr)
    [] stmt.k = "org" ->
         LET orgMatch == matchOrg(stmt, label)
             orgValue == originValue(addr, orgMatch.value) IN
         IF orgMatch.matched
         THEN P1Ok(lbls, Append(recs, [Directive(ln, orgValue, ".org", "") EXCEPT !.size = 0]), orgValue)
         ELSE P1Err(Err("syntax", ""), ln, lbls)
    [] stmt.k = "res" ->
         LET count == parseValue(stmt.args[1], lbls) IN
         IF ~count.ok THEN P1Err(count.err, ln, lbls)
         ELSE P1Ok(lbls, Append(recs, [Directive(ln, addr, ".res", label) EXCEPT !.size = NumInt(count.n)]),
                   addr + NumInt(count.n))
    [] stmt.k = "byte" ->
         LET r == byteValuesFrom(stmt.args, 1, lbls, <<>>) IN
         IF r.error # Null THEN P1Err(r.error, ln, lbls)
         ELSE P1Ok(lbls, Append(recs, [Directive(ln, addr, ".byte", label) EXCEPT !.values = r.bytes]),
                   addr + Len(r.bytes))
    [] stmt.k = "word" ->
         P1Ok(lbls, Append(recs, [Directive(ln, addr, ".word", label) EXCEPT !.valueStrings = stmt.args]),
              addr + Len(stmt.args) * 2)
    [] stmt.k = "dword" ->
         P1Ok(lbls, Append(recs, [Directive(ln, addr, ".dword", label) EXCEPT !.valueStrings = stmt.args]),
              addr + Len(stmt.args) * 4)
    [] stmt.k = "ascii" ->
         LET r == parseMixedValues(stmt.args, lbls) IN
         IF r.error # Null THEN P1Err(r.error, ln, lbls)
         ELSE P1Ok(lbls, Append(recs, [Directive(ln, addr, ".ascii", label) EXCEPT !.values = r.bytes]),
                   addr + Len(r.bytes))
    [] stmt.k = "asciiz" ->
         LET r == parseMixedValues(stmt.args, lbls) IN
         IF r.error # Null THEN P1Err(r.error, ln, lbls)
         ELSE P1Ok(lbls, Append(recs, [Directive(ln, addr, ".asciiz", label) EXCEPT !.values = r.bytes]),
                   addr + Len(r.bytes) + 1)
    [] stmt.k = "instr" ->
         LET mnemonic == toUpperCase(stmt.mn)
             candidateVariants == candidateVariantsOf(mnemonic, stmt.op) IN
         IF Len(candidateVariants) = 0 THEN P1Err(Err("mode", mnemonic), ln, lbls)
         ELSE LET found == instructionFound(candidateVariants, stmt.op, lbls) IN
              P1Ok(lbls,
                   Append(recs, [PL(ln, addr, "instruction") EXCEPT !.mnemonic = mnemonic, !.operand = stmt.op,
                                    !.variant = found, !.candidateVariants = candidateVariants]),
                   addr + found.size)
    [] stmt.k = "junk" -> P1Err(Err("syntax", ""), ln, lbls)

\* a label bound to the origin its own line sets
labelAddressAfterOrigin(line, addr) ==
  IF line.stmt.k = "org" /\ matchOrg(line.stmt, line.label).matched
  THEN matchOrg(line.stmt, line.label).value
  ELSE addr

\* labels.set(currentLineLabel, currentAddress): the counter as the line
\* finds it
labelAddress(line, addr) == addr

\* a label test that never reports a duplicate
DuplicateLabelNever(lbls, name) == FALSE

\* labels.has(currentLineLabel)
DuplicateLabel(lbls, name) == Has(lbls, name)

\* whitespace as String.prototype.trim sees it
IsSpace(c) == c \in {" ", "TAB"}

RECURSIVE TrimStart(_)
TrimStart(cs) == IF cs # <<>> /\ IsSpace(Head(cs)) THEN TrimStart(Tail(cs)) ELSE cs

RECURSIVE TrimEnd(_)
TrimEnd(cs) == IF cs # <<>> /\ IsSpace(cs[Len(cs)]) THEN TrimEnd(SubSeq(cs, 1, Len(cs) - 1)) ELSE cs

\* a trim that removes nothing
TrimNothing(cs) == cs

\* originalLine.trim()
Trim(cs) == TrimEnd(TrimStart(cs))

\* processedLine.indexOf(';'), counted from 1; 0 when there is none
RECURSIVE indexOfSemicolon(_, _)
indexOfSemicolon(cs, k) ==
  IF k > Len(cs) THEN 0 ELSE IF cs[k] = ";" THEN k ELSE indexOfSemicolon(cs, k + 1)

\* processedLine.substring(0, commentIndex).trim(), when there is a ';'
stripComment(cs) ==
  LET commentIndex == indexOfSemicolon(cs, 1) IN
  IF commentIndex # 0 THEN Trim(SubSeq(cs, 1, commentIndex - 1)) ELSE cs

\* a line of letters, blanks and ';' only: a full-line comment or empty line,
\* a line that is empty once its comment is stripped, or text that is no
\* label and no directive: three leading letters are taken as a mnemonic,
\* which is not in the table; anything else is a syntax error
Pass1Raw(cs, ln, lbls, addr) ==
  LET processedLine == Trim(cs) IN
  IF processedLine = <<>> \/ Head(processedLine) = ";"
  THEN P1Ok(lbls, <<PL(ln, addr, "comment")>>, addr)
  ELSE LET content == stripComment(processedLine) IN
       IF content = <<>> THEN P1Ok(lbls, <<PL(ln, addr, "comment")>>, addr)
       ELSE IF Len(content) >= 3 /\ \A k \in 1..3 : content[k] = "x"
       THEN P1Err(Err("mode", "XXX"), ln, lbls)
       ELSE P1Err(Err("syntax", ""), ln, lbls)

Pass1Line(line, ln, lbls, addr) ==
  IF line.stmt.k = "raw" THEN Pass1Raw(line.stmt.args, ln, lbls, addr)
  ELSE IF line.label = "" /\ line.stmt.k = "none"
  THEN P1Ok(lbls, <<PL(ln, addr, "comment")>>, addr)
  ELSE IF line.label # ""
  THEN IF DuplicateLabel(lbls, line.label)
       THEN P1Err(Err("dup", line.label), ln, lbls)
       ELSE Pass1Statement(line.stmt, ln, line.label, Set(lbls, line.label, labelAddress(line, addr)),
                           <<[PL(ln, addr, "label") EXCEPT !.label = line.label]>>, addr)
  ELSE Pass1Statement(line.stmt, ln, "", lbls, <<>>, addr)

(***************************************************************************)
(* Pass 2: one iteration of the loop over the parsed lines                 *)
(***************************************************************************)
P2Err(e, ln) == [error |-> [At(e, ln, 2) EXCEPT !.closing = "Original"], bytes |-> <<>>]

P2Ok(bs) == [error |-> Null, bytes |-> bs]

\* candidateVariants.find(v => v.size === size), or dflt when there is none
FindSize(candidateVariants, size, dflt) ==
  LET hits == SelectSeq(candidateVariants, LAMBDA v : v.size = size)
  IN IF Len(hits) > 0 THEN hits[1] ELSE dflt

\* a Pass 2 that keeps the provisional variant of Pass 1
finalVariantUnrefined(pLine, lbls) == pLine.variant

\* the smart selection between the zero-page and the absolute variant
finalVariantOf(pLine, lbls) ==
  IF Len(pLine.candidateVariants) > 1 /\ pLine.operand.shape = "bare" /\ IsIdent(pLine.operand.v)
     /\ Has(lbls, pLine.operand.v.name)
  THEN IF lbls[pLine.operand.v.name] <= 255
       THEN FindSize(pLine.candidateVariants, 2, pLine.variant)
       ELSE FindSize(pLine.candidateVariants, 3, pLine.variant)
  ELSE pLine.variant

Pass2Instruction(pLine, lbls) ==
  LET finalVariant == finalVariantOf(pLine, lbls)
      operandResult == Resolve(finalVariant, pLine.operand, lbls, pLine.address)
      instructionBytes == <<finalVariant.opcode>> \o operandResult.bytes
  IN IF operandResult.error # Null THEN P2Err(operandResult.error, pLine.lineNumber)
     ELSE IF Len(instructionBytes) # finalVariant.size THEN P2Err(Err("internal", ""), pLine.lineNumber)
     ELSE P2Ok(instructionBytes)

\* a .word value pushed as its low byte only
WordBytesLowOnly(n) == <<NumAnd255(n)>>

\* the two bytes pushed for one .word value
WordBytes(n) == <<NumAnd255(n), And255(Sar(n, 8))>>

\* a top byte taken without the mask: negative when bit 31 is set
DwordBytesUnmasked(n) == <<NumAnd255(n), And255(Sar(n, 8)), And255(Sar(n, 16)), Sar(n, 24)>>

\* the four bytes pushed for one .dword value
DwordBytes(n) == <<NumAnd255(n), And255(Sar(n, 8)), And255(Sar(n, 16)), And255(Sar(n, 24))>>

RECURSIVE Pass2Values(_, _, _, _, _)
Pass2Values(pLine, k, lbls, wide, acc) ==
  IF k > Len(pLine.valueStrings) THEN P2Ok(acc)
  ELSE LET value == parseValue(pLine.valueStrings[k], lbls) IN
    IF ~value.ok THEN P2Err(value.err, pLine.lineNumber)
    ELSE IF (IF wide THEN GtFFFFFFFF(value.n) ELSE GtFFFF(value.n))
    THEN P2Err(Err("range", pLine.valueStrings[k].name), pLine.lineNumber)
    ELSE Pass2Values(pLine, k + 1, lbls, wide,
                     acc \o (IF wide THEN DwordBytes(value.n) ELSE WordBytes(value.n)))

Pass2Line(pLine, lbls) ==
  IF pLine.type = "instruction" THEN Pass2Instruction(pLine, lbls)
  ELSE IF pLine.type = "directive" /\ pLine.directive = ".byte" THEN P2Ok(pLine.values)
  ELSE IF pLine.type = "directive" /\ pLine.directive = ".word" THEN Pass2Values(pLine, 1, lbls, FALSE, <<>>)
  ELSE IF pLine.type = "directive" /\ pLine.directive = ".dword" THEN Pass2Values(pLine, 1, lbls, TRUE, <<>>)
  ELSE IF pLine.type = "directive" /\ pLine.directive = ".ascii" THEN P2Ok(pLine.values)
  ELSE IF pLine.type = "directive" /\ pLine.directive = ".asciiz" THEN P2Ok(Append(pLine.values, 0))
  ELSE P2Ok(<<>>)

(***************************************************************************)
(* assemble as a state machine: one step per loop iteration                *)
(***************************************************************************)
\* a return that hands back the bytes produced so far
ErrorResultPartial(e, mc) == [machineCode |-> mc, error |-> e]

\* return { machineCode: [], error }
ErrorResult(e, mc) == [machineCode |-> <<>>, error |-> e]

\* return { machineCode, error }
FinalResult(mc, e) == [machineCode |-> mc, error |-> e]

NoResult == [machineCode |-> <<>>, error |-> Null]

InitWith(programs) ==
  /\ code \in programs
  /\ pc = "pass1"
  /\ i = 1
  /\ labels = [n \in {} |-> 0]
  /\ parsedLines = <<>>
  /\ currentAddress = 0
  /\ j = 1
  /\ machineCode = <<>>
  /\ error = Null
  /\ result = NoResult
  /\ lastIndex = [r \in RegexObjects |-> 0]
  /\ returned = <<>>

\* `... '${originalLine}'`: the error quotes the source line
Quote(e, originalLine) == [e EXCEPT !.originalLine = originalLine]

\* every record an iteration pushes stores originalLine
WithOriginalLine(recs, originalLine) ==
  [k \in 1..Len(recs) |-> [recs[k] EXCEPT !.originalLine = originalLine]]

Pass1 ==
  /\ pc = "pass1"
  /\ i <= Len(code)
  /\ LET r == Pass1Line(code[i], i, labels, currentAddress) IN
     IF r.error # Null
     THEN /\ error' = Quote(r.error, code[i])
          /\ result' = ErrorResult(Quote(r.error, code[i]), machineCode)
          /\ pc' = "done"
          /\ labels' = r.labels
          /\ UNCHANGED <<i, parsedLines, currentAddress>>
     ELSE /\ labels' = r.labels
          /\ parsedLines' = parsedLines \o WithOriginalLine(r.recs, code[i])
          /\ currentAddress' = r.addr
          /\ i' = i + 1
          /\ pc' = IF i = Len(code) THEN "pass2" ELSE "pass1"
          /\ UNCHANGED <<error, result>>
  /\ lastIndex' = lastIndexAfter(code[i], labels)
  /\ UNCHANGED <<code, j, machineCode, returned>>

Pass2 ==
  /\ pc = "pass2"
  /\ j <= Len(parsedLines)
  /\ LET r == Pass2Line(parsedLines[j], labels) IN
     IF r.error # Null
     THEN /\ error' = Quote(r.error, parsedLines[j].originalLine)
          /\ result' = ErrorResult(Quote(r.error, parsedLines[j].originalLine), machineCode)
          /\ pc' = "done"
          /\ UNCHANGED <<j, machineCode>>
     ELSE /\ machineCode' = machineCode \o r.bytes
          /\ j' = j + 1
          /\ pc' = IF j = Len(parsedLines) THEN "done" ELSE "pass2"
          /\ result' = IF j = Len(parsedLines) THEN FinalResult(machineCode \o r.bytes, error) ELSE result
          /\ UNCHANGED error
  /\ UNCHANGED <<code, i, labels, parsedLines, currentAddress, lastIndex, returned>>

Next == Pass1 \/ Pass2

(***************************************************************************)
(* Sources: every sequence of 1..MaxLines lines over a set of lines        *)
(***************************************************************************)
Programs(lines) == UNION {[1..n -> lines] : n \in 1..MaxLines}

\* a mixed program text: origin, labels, instructions, data, and lines that
\* fail in Pass 1 (.byte 256, junk) or in Pass 2 (#$100, undefined label)
GeneralLines ==
  { Comment,
    Org("", \h0200),
    LabelOnly("a"),
    Instr("", "LDA", Operand("imm", Hex(2, 0, 1))),
    Instr("", "STA", Operand("bare", Hex(4, 0, \h0300))),
    Instr("", "JMP", Operand("bare", Ident("a"))),
    Instr("", "BNE", Operand("bare", Ident("a"))),
    Instr("a", "BRK", NoOperand),
    Instr("", "LDA", Operand("imm", Hex(3, 0, \h100))),
    Data("", "byte", <<Dec(3, 0, 256)>>),
    Data("", "word", <<Hex(4, 0, \h1234), Ident("b")>>),
    Data("", "asciiz", <<Str(<<"H", "i">>)>>),
    Junk("") }

Init == InitWith(Programs(GeneralLines))

Spec == Init /\ [][Next]_vars

(***************************************************************************)
(* C1: whenever assemble returns a non-null error the returned machineCode *)
(* is empty, for a Pass 1 error and for a Pass 2 error raised after        *)
(* earlier lines produced bytes; a non-empty machineCode is only returned  *)
(* together with error = null.                                             *)
(***************************************************************************)
C1_ErrorMeansNoBytes ==
  pc = "done" =>
    /\ (result.error # Null => result.machineCode = <<>>)
    /\ (result.machineCode # <<>> => result.error = Null)

\* a Pass 2 error returned after Pass 2 had already produced bytes
C1_Witness ==
  pc = "done" /\ result.error # Null /\ result.error.pass = 2 /\ machineCode # <<>>

(***************************************************************************)
(* Layout: labels in and out of the zero page, defined before and after    *)
(* the instructions that name them                                         *)
(***************************************************************************)
LayoutLines ==
  { Org("", \h0010),
    Org("", \h0300),
    Org("", \hFFFF),
    LabelOnly("d"),
    Res("d", Dec(1, 0, 1)),
    Data("", "word", <<Hex(4, 0, \h1234)>>),
    Instr("", "LDA", Operand("bare", Ident("d"))),
    Instr("", "STA", Operand("bare", Ident("d"))),
    Instr("d", "INC", Operand("bare", Ident("d"))),
    Instr("", "BIT", Operand("bare", Ident("d"))),
    Instr("", "JMP", Operand("bare", Ident("d"))),
    Instr("", "LDA", Operand("bare", Hex(2, 0, \h10))),
    Instr("", "BRK", NoOperand) }

InitLayout == InitWith(Programs(LayoutLines))

SpecLayout == InitLayout /\ [][Next]_vars

\* the parsed line Pass 2 is about to encode
Current == parsedLines[j]

\* Pass 2 is at an instruction whose operand is a bare identifier
AtBareIdent ==
  /\ pc = "pass2"
  /\ Current.type = "instruction"
  /\ Current.operand.shape = "bare"
  /\ Current.operand.v.t = "id"

\* the zero-page and the absolute opcode of the mnemonics that have both
\* (MOS 6502 opcode matrix)
ZpAbsOpcodes ==
  [LDA |-> <<\hA5, \hAD>>, LDX |-> <<\hA6, \hAE>>, LDY |-> <<\hA4, \hAC>>,
   STA |-> <<\h85, \h8D>>, STX |-> <<\h86, \h8E>>, STY |-> <<\h84, \h8C>>,
   ADC |-> <<\h65, \h6D>>, SBC |-> <<\hE5, \hED>>, CMP |-> <<\hC5, \hCD>>,
   CPX |-> <<\hE4, \hEC>>, CPY |-> <<\hC4, \hCC>>, INC |-> <<\hE6, \hEE>>,
   DEC |-> <<\hC6, \hCE>>, ASL |-> <<\h06, \h0E>>, LSR |-> <<\h46, \h4E>>,
   ROL |-> <<\h26, \h2E>>, ROR |-> <<\h66, \h6E>>, AND |-> <<\h25, \h2D>>,
   EOR |-> <<\h45, \h4D>>, ORA |-> <<\h05, \h0D>>, BIT |-> <<\h24, \h2C>>]

HasZpAndAbs(mn) == mn \in DOMAIN ZpAbsOpcodes

(***************************************************************************)
(* C2: for every instruction line of a successfully assembled program the  *)
(* number of bytes Pass 2 emits equals the size of the provisional variant *)
(* by which Pass 1 advanced the location counter, also when the operand is *)
(* a bare identifier matching a zero-page and an absolute variant.         *)
(***************************************************************************)
C2_Pass2SizeEqualsPass1Size ==
  (pc = "done" /\ result.error = Null) =>
    \A k \in 1..Len(parsedLines) :
      parsedLines[k].type = "instruction" =>
        Len(Pass2Line(parsedLines[k], labels).bytes) = parsedLines[k].variant.size

(***************************************************************************)
(* C4: an instruction whose operand is a bare identifier and whose         *)
(* mnemonic has a zero-page and an absolute variant is emitted as the      *)
(* zero-page opcode and the address byte when the label is bound at or     *)
(* below 0xFF, and as the absolute opcode, low byte, high byte when it is  *)
(* bound above 0xFF (a 16-bit address), wherever the label is defined.     *)
(***************************************************************************)
C4_Step ==
  (AtBareIdent /\ HasZpAndAbs(Current.mnemonic) /\ Has(labels, Current.operand.v.name)) =>
    LET a == labels[Current.operand.v.name]
        ops == ZpAbsOpcodes[Current.mnemonic]
    IN /\ a <= 255 => machineCode' = machineCode \o <<ops[1], a>>
       /\ (a > 255 /\ a <= 65535) => machineCode' = machineCode \o <<ops[2], a % 256, a \div 256>>

C5_Step ==
  (/\ pc = "pass1"
   /\ code[i].stmt.k = "instr"
   /\ code[i].stmt.op.shape = "bare" /\ code[i].stmt.op.v.t = "id"
   /\ HasZpAndAbs(code[i].stmt.mn)
   /\ error' = Null) =>
    LET name == code[i].stmt.op.v.name
    IN currentAddress' - currentAddress =
         IF Has(labels', name) /\ labels'[name] <= 255 THEN 2 ELSE 3

C5_ForwardReferencesAdvanceByThree == [][C5_Step]_vars

(***************************************************************************)
(* Branches: targets 127, 128 bytes ahead and 128, 129 bytes behind        *)
(***************************************************************************)
BranchMnemonics == {"BPL", "BMI", "BVC", "BVS", "BCC", "BCS", "BNE", "BEQ"}

BranchLines ==
  { LabelOnly("t"),
    Org("", \h007E),
    Org("", \h007F),
    Org("", \h0081),
    Org("", \h0082),
    Org("", \h0200),
    Instr("", "NOP", NoOperand),
    Instr("t", "DEX", NoOperand) }
  \cup { Instr("", m, Operand("bare", Ident("t"))) : m \in BranchMnemonics }

InitBranch == InitWith(Programs(BranchLines))

SpecBranch == InitBranch /\ [][Next]_vars

\* the opcodes of the branch instructions (MOS 6502 opcode matrix)
BranchOpcodes ==
  [BPL |-> \h10, BMI |-> \h30, BVC |-> \h50, BVS |-> \h70,
   BCC |-> \h90, BCS |-> \hB0, BNE |-> \hD0, BEQ |-> \hF0]

(***************************************************************************)
(* C3: a branch placed by Pass 1 at address A whose label is bound to T    *)
(* emits, when -128 <= T - (A + 2) <= 127, its opcode and exactly one      *)
(* byte B = (T - (A + 2)) mod 256, so that T = A + 2 + (B if B < 128 else  *)
(* B - 256); otherwise assembly fails with an error naming the label and   *)
(* the signed offset and no bytes are returned.                            *)
(***************************************************************************)
C3_Step ==
  (/\ AtBareIdent
   /\ Current.mnemonic \in BranchMnemonics
   /\ Has(labels, Current.operand.v.name)) =>
    LET A == Current.address
        T == labels[Current.operand.v.name]
        off == T - (A + 2)
        B == IF off >= 0 THEN off ELSE off + 256
    IN IF -128 <= off /\ off <= 127
       THEN /\ machineCode' = machineCode \o <<BranchOpcodes[Current.mnemonic], B>>
            /\ T = A + 2 + (IF B < 128 THEN B ELSE B - 256)
            /\ error' = Null
       ELSE /\ pc' = "done"
            /\ result'.error.kind = "range"
            /\ result'.error.name = Current.operand.v.name
            /\ result'.error.offset = off
            /\ result'.error.line = Current.lineNumber
            /\ result'.machineCode = <<>>

C3_BranchOffset == [][C3_Step]_vars

\* a backward branch at the limit: offset -128 encoded as 0x80
C3_Witness ==
  /\ pc = "done" /\ result.error = Null
  /\ \E k \in 1..Len(parsedLines) :
       /\ parsedLines[k].mnemonic \in BranchMnemonics
       /\ labels[parsedLines[k].operand.v.name] - (parsedLines[k].address + 2) = -128
       /\ \E m \in 1..Len(result.machineCode) : result.machineCode[m] = \h80

(***************************************************************************)
(* Data directives: .word and .dword values up to and beyond their width,  *)
(* values with bit 15 and bit 31 set, labels, and quoted strings           *)
(***************************************************************************)
DataLines ==
  { Org("", \h0200),
    Data("w", "word", <<Hex(4, 0, \h1234), Hex(4, 0, \h5678)>>),
    Data("", "word", <<Hex(4, 0, \hFFFF), Dec(1, 0, 0)>>),
    Data("", "word", <<Ident("w"), Hex(4, 0, \h80FF)>>),
    Data("", "word", <<Hex(5, 1, 0)>>),
    Data("", "dword", <<Hex(8, \h1234, \h5678)>>),
    Data("", "dword", <<Hex(8, \h8000, \h0001), Ident("w")>>),
    Data("", "dword", <<Hex(8, \hFFFF, \hFFFF), Dec(3, 0, 258)>>),
    Data("", "dword", <<Hex(9, \h10000, 0)>>),
    Data("", "byte", <<Hex(2, 0, \hFF), Chr("A")>>),
    Data("", "ascii", <<Str(<<"H", "i">>), Dec(2, 0, 10)>>),
    Data("", "asciiz", <<Str(<<"e'", "~">>)>>),
    Data("", "ascii", <<Str(<<"A", "EUR">>)>>) }

InitData == InitWith(Programs(DataLines))

SpecData == InitData /\ [][Next]_vars

\* the number an element denotes once the symbol table is complete, as limbs
ElementValue(v) == IF v.t = "id" THEN ToNum(labels[v.name]) ELSE [hi |-> v.hi, lo |-> v.lo]

ElementKnown(v) == v.t \in {"hex", "dec"} \/ (v.t = "id" /\ Has(labels, v.name))

\* V & 0xFF, (V >> 8) & 0xFF, (V >> 16) & 0xFF, (V >> 24) & 0xFF of
\* V = hi * 65536 + lo, by positional arithmetic
LittleEndian(n, width) ==
  SubSeq(<<n.lo % 256, n.lo \div 256, n.hi % 256, n.hi \div 256>>, 1, width)

RECURSIVE Flatten(_)
Flatten(ss) == IF ss = <<>> THEN <<>> ELSE Head(ss) \o Flatten(Tail(ss))

(***************************************************************************)
(* C6: every .word element resolving to V in 0..65535 is emitted as        *)
(* (V & 0xFF, (V >> 8) & 0xFF) and every .dword element resolving to V in  *)
(* 0..4294967295, bit 31 set or not, as its four bytes least significant   *)
(* first; the elements of one directive appear in list order.              *)
(***************************************************************************)
C6_Step ==
  (/\ pc = "pass2"
   /\ Current.type = "directive"
   /\ Current.directive \in {".word", ".dword"}
   /\ \A k \in 1..Len(Current.valueStrings) :
        /\ ElementKnown(Current.valueStrings[k])
        /\ ElementValue(Current.valueStrings[k]).hi <= (IF Current.directive = ".word" THEN 0 ELSE 65535)) =>
    LET width == IF Current.directive = ".word" THEN 2 ELSE 4
    IN machineCode' = machineCode \o
         Flatten([k \in 1..Len(Current.valueStrings) |->
                    LittleEndian(ElementValue(Current.valueStrings[k]), width)])

C6_LittleEndian == [][C6_Step]_vars

\* a .dword value with bit 31 set has been emitted
C6_Witness ==
  /\ pc = "done" /\ result.error = Null
  /\ \E k \in 1..Len(parsedLines) :
       /\ parsedLines[k].directive = ".dword"
       /\ \E m \in 1..Len(parsedLines[k].valueStrings) : parsedLines[k].valueStrings[m].hi >= \h8000
  /\ \E k \in 1..Len(parsedLines) : parsedLines[k].directive = ".word"

(***************************************************************************)
(* C10: on success every element of the returned machineCode is an integer *)
(* in 0..255, whatever characters the quoted strings contain.              *)
(***************************************************************************)
C10_BytesOnly ==
  (pc = "done" /\ result.error = Null) =>
    \A k \in 1..Len(result.machineCode) : result.machineCode[k] \in 0..255

(***************************************************************************)
(* Static reading of a source                                              *)
(***************************************************************************)
\* the identifiers defined as labels, and the lines that define them
DefinedLabels(src) == {src[k].label : k \in 1..Len(src)} \ {""}

DefinedBefore(src, k, name) == \E m \in 1..k : src[m].label = name

\* the lines that define an identifier already defined on an earlier line
SecondDefinitions(src) ==
  {k \in 1..Len(src) : src[k].label # "" /\ \E m \in 1..(k - 1) : src[m].label = src[k].label}

HasDuplicate(src) == SecondDefinitions(src) # {}

FirstSecondDefinition(src) ==
  CHOOSE k \in SecondDefinitions(src) : \A m \in SecondDefinitions(src) : k <= m

\* the accumulator operand of a shift or rotate: A, not an identifier's value
IsAccumulatorOperand(stmt) ==
  stmt.mn \in {"ASL", "LSR", "ROL", "ROR"} /\ stmt.op.shape = "bare" /\ stmt.op.v.name \in {"A", "a"}

\* the identifiers a line uses as values
UsedIdents(line) ==
  IF line.stmt.k = "instr"
  THEN IF line.stmt.op.v.t = "id" /\ ~IsAccumulatorOperand(line.stmt) THEN {line.stmt.op.v.name} ELSE {}
  ELSE {line.stmt.args[k].name : k \in {m \in 1..Len(line.stmt.args) : line.stmt.args[m].t = "id"}}

\* .byte, .res, .ascii and .asciiz resolve their identifiers during Pass 1
ResolvedInPass1(line) == line.stmt.k \in {"byte", "res", "ascii", "asciiz"}

UsesUndefined(src) ==
  \E k \in 1..Len(src) : \E n \in UsedIdents(src[k]) : n \notin DefinedLabels(src)

\* a Pass 1 use of an identifier that is defined, but only on a later line
UsesForward(src) ==
  \E k \in 1..Len(src) :
    ResolvedInPass1(src[k]) /\ \E n \in UsedIdents(src[k]) : n \in DefinedLabels(src) /\ ~DefinedBefore(src, k, n)

HasJunk(src) == \E k \in 1..Len(src) : src[k].stmt.k = "junk"

\* an instruction whose operand text fits no addressing mode of its mnemonic
HasUnknownMode(src) ==
  \E k \in 1..Len(src) : src[k].stmt.k = "instr" /\ candidateVariantsOf(src[k].stmt.mn, src[k].stmt.op) = <<>>

(***************************************************************************)
(* Symbols: one identifier defined on label-only lines and ahead of an     *)
(* instruction, a data directive, .res and an origin directive             *)
(***************************************************************************)
SymbolLines ==
  { LabelOnly("a"),
    LabelOnly("b"),
    Instr("a", "NOP", NoOperand),
    Data("a", "byte", <<Dec(1, 0, 7)>>),
    Data("b", "word", <<Ident("a")>>),
    Data("a", "asciiz", <<Str(<<"H", "i">>)>>),
    Res("a", Dec(1, 0, 4)),
    Org("a", \h0200),
    Org("", \h0300),
    Instr("", "JMP", Operand("bare", Ident("a"))),
    Instr("", "LDA", Operand("imm", Dec(3, 0, 256))),
    Comment,
    Junk("") }

InitSymbols == InitWith(Programs(SymbolLines))

SpecSymbols == InitSymbols /\ [][Next]_vars

(***************************************************************************)
(* C8: a source that defines the same identifier as a label on two lines   *)
(* (label-only, or leading an instruction, a data directive, .res or an    *)
(* origin directive) fails with a Duplicate label error citing the line of *)
(* the second definition and returns no bytes, unless an earlier line has  *)
(* already failed Pass 1; the first binding is never overwritten.          *)
(***************************************************************************)
C8_AtReturn ==
  (pc = "done" /\ HasDuplicate(code)) =>
    LET k == FirstSecondDefinition(code) IN
    /\ result.error # Null
    /\ result.machineCode = <<>>
    /\ result.error.pass = 1
    /\ result.error.line <= k
    /\ result.error.line = k => (result.error.kind = "dup" /\ result.error.name = code[k].label)
    /\ result.error.line < k => \A m \in 1..result.error.line : m \notin SecondDefinitions(code)

C8_BindingKept ==
  \A n \in DOMAIN labels : Has(labels', n) /\ labels'[n] = labels[n]

C8_DuplicateLabel == [](C8_AtReturn) /\ [][C8_BindingKept]_vars

\* a Duplicate label error whose first definition leads a directive
C8_Witness ==
  /\ pc = "done" /\ result.error.kind = "dup" /\ result.error.line = 3
  /\ code[1].stmt.k = "org" /\ code[1].label = "a"
  /\ code[3].label = "a" /\ code[3].stmt.k = "byte"
  /\ labels["a"] = 0

(***************************************************************************)
(* Undefined identifiers in every place a value is read                    *)
(***************************************************************************)
UndefinedLines ==
  { LabelOnly("u"),
    Junk(""),
    Instr("", "NOP", NoOperand),
    Instr("k", "LDA", Operand("bare", Ident("u"))),
    Instr("", "STA", Operand("x", Ident("u"))),
    Instr("", "LDA", Operand("y", Ident("u"))),
    Instr("", "LDA", Operand("indx", Ident("u"))),
    Instr("", "STA", Operand("indy", Ident("u"))),
    Instr("", "JMP", Operand("ind", Ident("u"))),
    Instr("", "JSR", Operand("bare", Ident("u"))),
    Instr("", "LDX", Operand("imm", Ident("u"))),
    Instr("", "LDY", Operand("immlo", Ident("u"))),
    Instr("", "CMP", Operand("immhi", Ident("u"))),
    Instr("", "BEQ", Operand("bare", Ident("u"))),
    Data("", "word", <<Hex(2, 0, 1), Ident("u")>>),
    Data("", "dword", <<Ident("u")>>),
    Data("", "byte", <<Ident("u")>>),
    Res("", Ident("u")),
    Data("", "ascii", <<Str(<<"H">>), Ident("u")>>),
    Data("", "asciiz", <<Ident("u")>>) }

InitUndefined == InitWith(Programs(UndefinedLines))

SpecUndefined == InitUndefined /\ [][Next]_vars

LiteralRangeLines ==
  { Data("", "byte", <<Hex(2, 0, \hFF)>>),
    Data("", "byte", <<Dec(1, 0, 0), Dec(3, 0, 256)>>),
    Data("", "byte", <<Chr("EUR")>>),
    Data("", "ascii", <<Str(<<"H", "i">>), Dec(3, 0, 255)>>),
    Data("", "asciiz", <<Dec(3, 0, 256)>>),
    Data("", "word", <<Hex(4, 0, \hFFFF)>>),
    Data("", "word", <<Dec(5, 1, 0)>>),
    Data("", "dword", <<Hex(8, \hFFFF, \hFFFF)>>),
    Data("", "dword", <<Hex(9, \h10000, 0)>>),
    Instr("", "LDA", Operand("imm", Hex(2, 0, \hFF))),
    Instr("", "LDA", Operand("imm", Dec(3, 0, 256))),
    Instr("", "LDX", Operand("imm", Hex(3, 0, \h100))),
    Instr("", "LDA", Operand("x", Dec(3, 0, 255))),
    Instr("", "STA", Operand("x", Dec(3, 0, 256))),
    Instr("", "LDX", Operand("y", Dec(3, 0, 999))),
    Instr("", "LDA", Operand("indx", Hex(2, 0, \hFF))),
    Instr("", "LDA", Operand("indx", Hex(3, 0, \h100))),
    Instr("", "STA", Operand("indy", Hex(4, 0, \h1000))),
    Instr("", "JMP", Operand("ind", Hex(4, 0, \hFFFF))),
    Instr("", "JMP", Operand("ind", Hex(5, 1, 0))),
    Instr("", "LDA", Operand("bare", Hex(5, 1, \h2345))) }

LabelRangeLines ==
  { Org("", \h00FF),
    Org("", \h0100),
    Res("", Dec(5, 1, 4464)),
    LabelOnly("p"),
    Instr("", "LDA", Operand("imm", Ident("p"))),
    Data("", "byte", <<Ident("p")>>),
    Data("", "ascii", <<Ident("p")>>),
    Instr("", "LDA", Operand("indx", Ident("p"))),
    Instr("", "STA", Operand("indy", Ident("p"))),
    Instr("", "LDA", Operand("x", Ident("p"))),
    Instr("", "LDX", Operand("y", Ident("p"))),
    Instr("", "LDA", Operand("bare", Ident("p"))),
    Instr("", "JMP", Operand("bare", Ident("p"))),
    Instr("", "JMP", Operand("ind", Ident("p"))),
    Data("", "word", <<Ident("p")>>),
    Data("", "dword", <<Ident("p")>>) }

InitRange == InitWith(Programs(LiteralRangeLines) \cup Programs(LabelRangeLines))

SpecRange == InitRange /\ [][Next]_vars

\* the number a value token denotes, as far as the symbol table knows it
Known(v) == v.t \in {"hex", "dec", "chr"} \/ (v.t = "id" /\ Has(labels, v.name))

Denoted(v) ==
  IF v.t = "id" THEN ToNum(labels[v.name])
  ELSE IF v.t = "chr" THEN ToNum(charCodeAt(v.chars[1]))
  ELSE [hi |-> v.hi, lo |-> v.lo]

\* v exceeds a field of the given number of bytes
Exceeds(v, bytes) ==
  Known(v) /\ CASE bytes = 1 -> Denoted(v).hi > 0 \/ Denoted(v).lo > 255
                 [] bytes = 2 -> Denoted(v).hi > 0
                 [] bytes = 4 -> Denoted(v).hi > 65535

\* the width in bytes of the operand field an operand text selects:
\* immediate, zero page, zero page indexed, (indirect,X), (indirect),Y are
\* one byte; absolute, absolute indexed and indirect are two; a bare label
\* is absolute unless it fits the zero page
OperandFieldBytes(op) ==
  CASE op.shape = "imm" -> 1
    [] op.shape \in {"indx", "indy"} -> 1
    [] op.shape = "ind" -> 2
    [] op.shape \in {"x", "y"} -> IF op.v.t = "dec" \/ (op.v.t = "hex" /\ op.v.digits <= 2) THEN 1 ELSE 2
    [] op.shape = "bare" -> IF op.v.t = "hex" /\ op.v.digits <= 2 THEN 1 ELSE 2
    [] OTHER -> 0

\* a numeric field of the line holds a value outside its width
OutOfRange(line) ==
  CASE line.stmt.k \in {"byte", "ascii", "asciiz"} ->
         \E k \in 1..Len(line.stmt.args) :
           line.stmt.args[k].t \notin {"str", "openstr"} /\ Exceeds(line.stmt.args[k], 1)
    [] line.stmt.k = "word" -> \E k \in 1..Len(line.stmt.args) : Exceeds(line.stmt.args[k], 2)
    [] line.stmt.k = "dword" -> \E k \in 1..Len(line.stmt.args) : Exceeds(line.stmt.args[k], 4)
    [] line.stmt.k = "instr" ->
         /\ candidateVariantsOf(line.stmt.mn, line.stmt.op) # <<>>
         /\ OperandFieldBytes(line.stmt.op) > 0
         /\ Exceeds(line.stmt.op.v, OperandFieldBytes(line.stmt.op))
    [] OTHER -> FALSE

HasOutOfRange(src) == \E k \in 1..Len(src) : OutOfRange(src[k])

(***************************************************************************)
(* C7: no numeric field is silently truncated: a .byte or .ascii/.asciiz   *)
(* numeric element outside 0..255, a .word element outside 0..65535, a     *)
(* .dword element outside 0..4294967295, an immediate, zero-page,          *)
(* zero-page-indexed, (indirect,X) or (indirect),Y operand outside 0..255, *)
(* an absolute, absolute-indexed or indirect operand outside 0..65535,     *)
(* from a literal or from a label, makes assemble return an error and no   *)
(* bytes, and that error is the out-of-range error whenever the source has *)
(* no other defect.                                                        *)
(***************************************************************************)
C7_NoSilentTruncation ==
  pc = "done" =>
    /\ HasOutOfRange(code) => (result.error # Null /\ result.machineCode = <<>>)
    /\ (/\ HasOutOfRange(code)
        /\ ~HasDuplicate(code) /\ ~HasJunk(code) /\ ~HasUnknownMode(code)
        /\ ~UsesUndefined(code) /\ ~UsesForward(code)) => result.error.kind = "range"

\* a label bound past 0xFFFF rejected as an absolute operand
C7_Witness ==
  /\ pc = "done" /\ result.error.kind = "range" /\ result.error.pass = 2
  /\ code[result.error.line].stmt.mn = "JMP"
  /\ code[result.error.line].stmt.op.v.t = "id"
  /\ labels["p"] > 65535

\* a literal one past the zero page rejected as a (indirect,X) operand
C7_WitnessLiteral ==
  /\ pc = "done" /\ result.error.kind = "range" /\ result.error.pass = 2
  /\ code[result.error.line].stmt.op.shape = "indx"
  /\ machineCode # <<>>

(***************************************************************************)
(* C11: the location counter never exceeds 0xFFFF and every label of the   *)
(* symbol table is bound to an address in 0..65535, for any sequence of    *)
(* origin, .res, data and instruction lines.                               *)
(***************************************************************************)
C11_SixteenBitAddresses ==
  /\ currentAddress \in 0..65535
  /\ \A n \in DOMAIN labels : labels[n] \in 0..65535

(***************************************************************************)
(* The documented instruction set: mnemonic, addressing mode, opcode       *)
(***************************************************************************)
documentedInstructions ==
  { <<"LDA", "imm", \hA9>>, <<"LDA", "zp", \hA5>>, <<"LDA", "zpx", \hB5>>, <<"LDA", "abs", \hAD>>,
    <<"LDA", "abx", \hBD>>, <<"LDA", "aby", \hB9>>, <<"LDA", "indx", \hA1>>, <<"LDA", "indy", \hB1>>,
    <<"LDX", "imm", \hA2>>, <<"LDX", "zp", \hA6>>, <<"LDX", "zpy", \hB6>>, <<"LDX", "abs", \hAE>>,
    <<"LDX", "aby", \hBE>>, <<"LDY", "imm", \hA0>>, <<"LDY", "zp", \hA4>>, <<"LDY", "zpx", \hB4>>,
    <<"LDY", "abs", \hAC>>, <<"LDY", "abx", \hBC>>, <<"STA", "zp", \h85>>, <<"STA", "zpx", \h95>>,
    <<"STA", "abs", \h8D>>, <<"STA", "abx", \h9D>>, <<"STA", "aby", \h99>>, <<"STA", "indx", \h81>>,
    <<"STA", "indy", \h91>>, <<"STX", "zp", \h86>>, <<"STX", "zpy", \h96>>, <<"STX", "abs", \h8E>>,
    <<"STY", "zp", \h84>>, <<"STY", "zpx", \h94>>, <<"STY", "abs", \h8C>>, <<"ADC", "imm", \h69>>,
    <<"ADC", "zp", \h65>>, <<"ADC", "zpx", \h75>>, <<"ADC", "abs", \h6D>>, <<"ADC", "abx", \h7D>>,
    <<"ADC", "aby", \h79>>, <<"ADC", "indx", \h61>>, <<"ADC", "indy", \h71>>, <<"SBC", "imm", \hE9>>,
    <<"SBC", "zp", \hE5>>, <<"SBC", "zpx", \hF5>>, <<"SBC", "abs", \hED>>, <<"SBC", "abx", \hFD>>,
    <<"SBC", "aby", \hF9>>, <<"SBC", "indx", \hE1>>, <<"SBC", "indy", \hF1>>, <<"CMP", "imm", \hC9>>,
    <<"CMP", "zp", \hC5>>, <<"CMP", "zpx", \hD5>>, <<"CMP", "abs", \hCD>>, <<"CMP", "abx", \hDD>>,
    <<"CMP", "aby", \hD9>>, <<"CMP", "indx", \hC1>>, <<"CMP", "indy", \hD1>>, <<"CPX", "imm", \hE0>>,
    <<"CPX", "zp", \hE4>>, <<"CPX", "abs", \hEC>>, <<"CPY", "imm", \hC0>>, <<"CPY", "zp", \hC4>>,
    <<"CPY", "abs", \hCC>>, <<"INC", "zp", \hE6>>, <<"INC", "zpx", \hF6>>, <<"INC", "abs", \hEE>>,
    <<"INC", "abx", \hFE>>, <<"DEC", "zp", \hC6>>, <<"DEC", "zpx", \hD6>>, <<"DEC", "abs", \hCE>>,
    <<"DEC", "abx", \hDE>>, <<"INX", "impl", \hE8>>, <<"INY", "impl", \hC8>>, <<"DEX", "impl", \hCA>>,
    <<"DEY", "impl", \h88>>, <<"ASL", "acc", \h0A>>, <<"ASL", "zp", \h06>>, <<"ASL", "zpx", \h16>>,
    <<"ASL", "abs", \h0E>>, <<"ASL", "abx", \h1E>>, <<"LSR", "acc", \h4A>>, <<"LSR", "zp", \h46>>,
    <<"LSR", "zpx", \h56>>, <<"LSR", "abs", \h4E>>, <<"LSR", "abx", \h5E>>, <<"ROL", "acc", \h2A>>,
    <<"ROL", "zp", \h26>>, <<"ROL", "zpx", \h36>>, <<"ROL", "abs", \h2E>>, <<"ROL", "abx", \h3E>>,
    <<"ROR", "acc", \h6A>>, <<"ROR", "zp", \h66>>, <<"ROR", "zpx", \h76>>, <<"ROR", "abs", \h6E>>,
    <<"ROR", "abx", \h7E>>, <<"AND", "imm", \h29>>, <<"AND", "zp", \h25>>, <<"AND", "zpx", \h35>>,
    <<"AND", "abs", \h2D>>, <<"AND", "abx", \h3D>>, <<"AND", "aby", \h39>>, <<"AND", "indx", \h21>>,
    <<"AND", "indy", \h31>>, <<"EOR", "imm", \h49>>, <<"EOR", "zp", \h45>>, <<"EOR", "zpx", \h55>>,
    <<"EOR", "abs", \h4D>>, <<"EOR", "abx", \h5D>>, <<"EOR", "aby", \h59>>, <<"EOR", "indx", \h41>>,
    <<"EOR", "indy", \h51>>, <<"ORA", "imm", \h09>>, <<"ORA", "zp", \h05>>, <<"ORA", "zpx", \h15>>,
    <<"ORA", "abs", \h0D>>, <<"ORA", "abx", \h1D>>, <<"ORA", "aby", \h19>>, <<"ORA", "indx", \h01>>,
    <<"ORA", "indy", \h11>>, <<"BIT", "zp", \h24>>, <<"BIT", "abs", \h2C>>, <<"BPL", "rel", \h10>>,
    <<"BMI", "rel", \h30>>, <<"BVC", "rel", \h50>>, <<"BVS", "rel", \h70>>, <<"BCC", "rel", \h90>>,
    <<"BCS", "rel", \hB0>>, <<"BNE", "rel", \hD0>>, <<"BEQ", "rel", \hF0>>, <<"JMP", "abs", \h4C>>,
    <<"JMP", "ind", \h6C>>, <<"JSR", "abs", \h20>>, <<"RTS", "impl", \h60>>, <<"PHA", "impl", \h48>>,
    <<"PLA", "impl", \h68>>, <<"PHP", "impl", \h08>>, <<"PLP", "impl", \h28>>, <<"CLC", "impl", \h18>>,
    <<"SEC", "impl", \h38>>, <<"CLI", "impl", \h58>>, <<"SEI", "impl", \h78>>, <<"CLD", "impl", \hD8>>,
    <<"SED", "impl", \hF8>>, <<"CLV", "impl", \hB8>>, <<"TAX", "impl", \hAA>>, <<"TXA", "impl", \h8A>>,
    <<"TAY", "impl", \hA8>>, <<"TYA", "impl", \h98>>, <<"TSX", "impl", \hBA>>, <<"TXS", "impl", \h9A>>,
    <<"BRK", "impl", \h00>>, <<"NOP", "impl", \hEA>>, <<"RTI", "impl", \h40>> }

\* the size the documentation gives an addressing mode
documentedSize(mode) ==
  CASE mode \in {"impl", "acc"} -> 1
    [] mode \in {"imm", "zp", "zpx", "zpy", "indx", "indy", "rel"} -> 2
    [] mode \in {"abs", "abx", "aby", "ind"} -> 3

\* a well-formed operand of an addressing mode
wellFormedOperand(mode) ==
  CASE mode = "impl" -> NoOperand
    [] mode = "acc" -> Operand("bare", Ident("A"))
    [] mode = "imm" -> Operand("imm", Hex(2, 0, \h10))
    [] mode = "zp" -> Operand("bare", Hex(2, 0, \h10))
    [] mode = "zpx" -> Operand("x", Hex(2, 0, \h10))
    [] mode = "zpy" -> Operand("y", Hex(2, 0, \h10))
    [] mode = "abs" -> Operand("bare", Hex(4, 0, \h1234))
    [] mode = "abx" -> Operand("x", Hex(4, 0, \h1234))
    [] mode = "aby" -> Operand("y", Hex(4, 0, \h1234))
    [] mode = "indx" -> Operand("indx", Hex(2, 0, \h10))
    [] mode = "indy" -> Operand("indy", Hex(2, 0, \h10))
    [] mode = "ind" -> Operand("ind", Hex(4, 0, \h1234))
    [] mode = "rel" -> Operand("bare", Ident("t"))

\* one source per documented instruction: the label t, then the instruction
InstructionPrograms ==
  { <<LabelOnly("t"), Instr("", d[1], wellFormedOperand(d[2]))>> : d \in documentedInstructions }

InitInstructions == InitWith(InstructionPrograms)

SpecInstructions == InitInstructions /\ [][Next]_vars

\* the documented entry the source under assembly was written from
Documented == CHOOSE d \in documentedInstructions : code[2] = Instr("", d[1], wellFormedOperand(d[2]))

(***************************************************************************)
(* C12: each of the 56 documented mnemonics (RTI included), in each of its *)
(* documented addressing modes, assembles from a well-formed line without  *)
(* error to the documented opcode followed by size - 1 operand bytes.      *)
(***************************************************************************)
C12_DocumentedInstructionsAssemble ==
  pc = "done" =>
    /\ result.error = Null
    /\ Len(result.machineCode) = documentedSize(Documented[2])
    /\ result.machineCode[1] = Documented[3]

(***************************************************************************)
(* Operand shapes: instruction lines whose operand fits and does not fit   *)
(* the modes of the mnemonic, and mnemonics outside the table              *)
(***************************************************************************)
ModeLines ==
  { LabelOnly("p"),
    Org("", \h0200),
    Instr("", "NOP", NoOperand),
    Instr("", "LDA", Operand("imm", Hex(2, 0, \h10))),
    Instr("", "LDX", Operand("y", Hex(2, 0, \h10))),
    Instr("", "STA", Operand("y", Ident("p"))),
    Instr("", "ASL", Operand("bare", Ident("A"))),
    Instr("", "LSR", NoOperand),
    Instr("", "LDX", Operand("x", Hex(2, 0, \h10))),
    Instr("", "STA", Operand("imm", Hex(2, 0, \h10))),
    Instr("p", "STA", Operand("imm", Hex(2, 0, \h10))),
    Instr("", "XYZ", NoOperand),
    Instr("", "XYZ", Operand("imm", Hex(2, 0, \h10))),
    Instr("", "RTI", NoOperand),
    Instr("", "INX", Operand("bare", Ident("A"))),
    Instr("", "LDA", NoOperand),
    Instr("", "JMP", Operand("bare", Hex(2, 0, \h10))),
    Instr("", "BEQ", Operand("bare", Hex(4, 0, \h1234))),
    Instr("", "LDA", Operand("ind", Hex(2, 0, \h10))),
    Instr("", "JMP", Operand("indx", Hex(2, 0, \h10))),
    Instr("", "STX", Operand("y", Hex(4, 0, \h1234))),
    Instr("", "LDX", Operand("x", Ident("p"))),
    Instr("", "LDA", Operand("bare", Dec(2, 0, 10))),
    Instr("", "LDA", Operand("bare", Hex(5, 1, \h2345))),
    Instr("", "ASL", Operand("imm", Hex(2, 0, \h10))) }

InitModes == InitWith(Programs(ModeLines))

SpecModes == InitModes /\ [][Next]_vars

\* the documented addressing modes an operand text can denote
ShapeModes(op) ==
  CASE op.shape = "none" -> {"impl", "acc"}
    [] op.shape \in {"imm", "immlo", "immhi"} -> {"imm"}
    [] op.shape = "bare" ->
         IF IsHex(op.v, 1, 2) THEN {"zp"}
         ELSE IF IsHex(op.v, 3, 4) THEN {"abs"}
         ELSE IF IsIdent(op.v)
         THEN {"zp", "abs", "rel"} \cup (IF op.v.name \in {"A", "a"} THEN {"acc"} ELSE {})
         ELSE {}
    [] op.shape = "x" ->
         IF IsHex(op.v, 1, 2) \/ IsDec(op.v, 1, 3) THEN {"zpx"}
         ELSE IF IsHex(op.v, 3, 4) THEN {"abx"}
         ELSE IF IsIdent(op.v) THEN {"zpx", "abx"} ELSE {}
    [] op.shape = "y" ->
         IF IsHex(op.v, 1, 2) \/ IsDec(op.v, 1, 3) THEN {"zpy"}
         ELSE IF IsHex(op.v, 3, 4) THEN {"aby"}
         ELSE IF IsIdent(op.v) THEN {"zpy", "aby"} ELSE {}
    [] op.shape = "indx" -> {"indx"}
    [] op.shape = "indy" -> {"indy"}
    [] op.shape = "ind" -> {"ind"}

\* the mnemonic has a documented mode that the operand text can denote
Admits(mn, op) == \E d \in documentedInstructions : d[1] = mn /\ d[2] \in ShapeModes(op)

\* the addressing mode a variant encodes
ModeOf(variant) ==
  CASE variant.resolveOperand = "resolveImplied" -> "impl"
    [] variant.resolveOperand = "resolveAccumulator" -> "acc"
    [] variant.resolveOperand = "resolveImmediate" -> "imm"
    [] variant.resolveOperand = "resolveZeroPage" -> "zp"
    [] variant.resolveOperand = "resolveAbsolute" -> "abs"
    [] variant.resolveOperand = "resolveZeroPageIndexedX" -> "zpx"
    [] variant.resolveOperand = "resolveZeroPageIndexedY" -> "zpy"
    [] variant.resolveOperand = "resolveAbsoluteIndexedX" -> "abx"
    [] variant.resolveOperand = "resolveAbsoluteIndexedY" -> "aby"
    [] variant.resolveOperand = "resolveIndirectX" -> "indx"
    [] variant.resolveOperand = "resolveIndirectY" -> "indy"
    [] variant.resolveOperand = "resolveIndirectAbsolute" -> "ind"
    [] variant.resolveOperand = "resolveRelativeLabel" -> "rel"

TableMnemonics == {instructionSet[k].mnemonic : k \in 1..Len(instructionSet)}

(***************************************************************************)
(* C13: when Pass 1 reaches an instruction line whose mnemonic is not in   *)
(* the table, or whose operand text denotes no addressing mode of that     *)
(* mnemonic (LDX $10,X, STA #$10), assemble returns at that line with the  *)
(* Unknown instruction or addressing mode error and no bytes; and a        *)
(* record Pass 1 does push carries a variant of that mnemonic whose mode   *)
(* is one the operand text denotes.                                        *)
(***************************************************************************)
C13_Step ==
  (pc = "pass1" /\ code[i].stmt.k = "instr" /\ ~Has(labels, code[i].label)) =>
    LET mn == code[i].stmt.mn
        op == code[i].stmt.op IN
    /\ (mn \notin TableMnemonics \/ ~Admits(mn, op)) =>
         /\ pc' = "done"
         /\ result'.error.kind = "mode" /\ result'.error.line = i /\ result'.error.pass = 1
         /\ result'.machineCode = <<>>
    /\ error' = Null =>
         LET rec == parsedLines'[Len(parsedLines')] IN
         /\ rec.type = "instruction" /\ rec.lineNumber = i
         /\ rec.variant.mnemonic = mn
         /\ ModeOf(rec.variant) \in ShapeModes(op)
         /\ <<mn, ModeOf(rec.variant), rec.variant.opcode>> \in documentedInstructions

C13_UnknownInstructionOrMode == [][C13_Step]_vars

\* STA #$10 rejected on the third line, after two lines were accepted
C13_Witness ==
  /\ pc = "done" /\ result.error.kind = "mode" /\ result.error.line = 3
  /\ code[3].stmt.mn = "STA" /\ code[3].stmt.op.shape = "imm"
  /\ Len(parsedLines) >= 2

(***************************************************************************)
(* C14: every error assemble returns, from Pass 1 or from Pass 2, has the  *)
(* form `Line N: <message>. Original line: '<text>'`, where N is the       *)
(* 1-based number of the offending source line and <text> is that line.    *)
(***************************************************************************)
C14_ErrorFormat ==
  (pc = "done" /\ result.error # Null) =>
    /\ result.error.line \in 1..Len(code)
    /\ result.error.closing = "Original line"
    /\ result.error.originalLine = code[result.error.line]

(***************************************************************************)
(* Calls: assemble called again after it has returned.  Every call starts  *)
(* from the locals assemble declares on entry; the pattern objects of      *)
(* opcodes.ts are the only objects that outlive a call.                    *)
(***************************************************************************)
CallSources ==
  { <<Instr("", "NOP", NoOperand)>>,
    <<Instr("p", "LDA", Operand("bare", Ident("p")))>>,
    <<Org("", \h0300), Instr("p", "LDA", Operand("imm", Hex(2, 0, \h10))), Instr("", "JMP", Operand("bare", Ident("p")))>>,
    <<Instr("", "JMP", Operand("bare", Ident("p")))>>,
    <<Instr("q", "LDX", Operand("y", Ident("q"))), Data("", "word", <<Ident("q")>>)>>,
    <<LabelOnly("p"), Comment, LabelOnly("p")>>,
    <<Instr("", "STA", Operand("imm", Hex(2, 0, \h10)))>> }

InitCalls == InitWith(CallSources)

\* assemble(code) called after the previous call has returned, with one of
\* the given sources
AssembleAgain(sources, maxCalls) ==
  /\ pc = "done"
  /\ Len(returned) < maxCalls - 1
  /\ returned' = Append(returned, [code |-> code, result |-> result])
  /\ code' \in sources
  /\ pc' = "pass1"
  /\ i' = 1
  /\ labels' = [n \in {} |-> 0]
  /\ parsedLines' = <<>>
  /\ currentAddress' = 0
  /\ j' = 1
  /\ machineCode' = <<>>
  /\ error' = Null
  /\ result' = NoResult
  /\ UNCHANGED lastIndex

Call == AssembleAgain(CallSources, MaxCalls)

NextCalls == Pass1 \/ Pass2 \/ Call

SpecCalls == InitCalls /\ [][NextCalls]_vars

(***************************************************************************)
(* C15: assemble is a function of its source alone: a call returns the     *)
(* machineCode and error that every earlier call with the same source      *)
(* returned, whatever sources were assembled before or between them.       *)
(***************************************************************************)
C15_FunctionOfSource ==
  pc = "done" => \A k \in 1..Len(returned) : returned[k].code = code => returned[k].result = result

\* the same source assembled again, to bytes, after a different source
C15_Witness ==
  /\ pc = "done" /\ Len(returned) = 2
  /\ returned[1].code = code /\ returned[2].code # code
  /\ returned[2].result.error = Null
  /\ result.error = Null /\ Len(result.machineCode) = 5

(***************************************************************************)
(* Sizes: every documented instruction, and instructions on labels         *)
(***************************************************************************)
InitSizes == InitWith(InstructionPrograms \cup Programs(LabelRangeLines) \cup Programs(ModeLines))

SpecSizes == InitSizes /\ [][Next]_vars

(***************************************************************************)
(* C16: when Pass 2 encodes an instruction, every candidate variant whose  *)
(* resolveOperand succeeds on the operand returns exactly size - 1 bytes,  *)
(* size being 1, 2 or 3; the instruction size mismatch error is never      *)
(* reported; and an instruction that is encoded adds to the output the     *)
(* opcode of the variant that encoded it and size bytes in all.            *)
(***************************************************************************)
C16_Step ==
  (pc = "pass2" /\ Current.type = "instruction") =>
    LET finalVariant == finalVariantOf(Current, labels) IN
    /\ \A k \in 1..Len(Current.candidateVariants) :
         LET variant == Current.candidateVariants[k]
             operandResult == Resolve(variant, Current.operand, labels, Current.address) IN
         /\ variant.size \in {1, 2, 3}
         /\ operandResult.error = Null => Len(operandResult.bytes) = variant.size - 1
    /\ error'.kind # "internal"
    /\ error' = Null =>
         /\ Len(machineCode') = Len(machineCode) + finalVariant.size
         /\ machineCode'[Len(machineCode) + 1] = finalVariant.opcode

C16_DeclaredSize == [][C16_Step]_vars

\* JMP p encoded in three bytes and LDA p in two, p in the zero page
C16_Witness ==
  /\ pc = "done" /\ result.error = Null /\ Len(result.machineCode) = 5
  /\ Len(code) = 3
  /\ code[2].stmt.mn = "JMP" /\ code[3].stmt.mn = "LDA" /\ code[3].stmt.op.shape = "bare"

(***************************************************************************)
(* Layout of data: every data directive, .res, origin, comment and label   *)
(***************************************************************************)
AdvanceLines ==
  { Org("", \h0200),
    Comment,
    LabelOnly("a"),
    Res("", Dec(1, 0, 5)),
    Res("r", Hex(2, 0, \h10)),
    Data("", "byte", <<Hex(2, 0, 1), Dec(1, 0, 2), Chr("A")>>),
    Data("b", "byte", <<Hex(2, 0, \hFF)>>),
    Data("", "word", <<Hex(4, 0, \h1234), Ident("a")>>),
    Data("", "dword", <<Hex(8, \h1234, \h5678)>>),
    Data("d", "dword", <<Dec(1, 0, 1), Ident("a"), Hex(2, 0, 2)>>),
    Data("", "ascii", <<Str(<<"H", "i">>), Dec(2, 0, 10)>>),
    Data("", "ascii", <<Str(<<"A">>)>>),
    Data("", "asciiz", <<Str(<<"H", "i">>)>>),
    Data("z", "asciiz", <<Str(<<>>)>>),
    Data("", "asciiz", <<Dec(2, 0, 13), Str(<<"H", "i", "A">>), Dec(2, 0, 10)>>) }

InitAdvance == InitWith(Programs(AdvanceLines))

SpecAdvance == InitAdvance /\ [][Next]_vars

RECURSIVE TokenBytes(_)
\* the total byte count of the tokens of .ascii / .asciiz: one per character
\* of a quoted string, one per numeric element
TokenBytes(toks) ==
  IF toks = <<>> THEN 0
  ELSE (IF Head(toks).t = "str" THEN Len(Head(toks).chars) ELSE 1) + TokenBytes(Tail(toks))

\* the size the claim gives a data directive
DirectiveBytes(stmt) ==
  CASE stmt.k = "byte" -> Len(stmt.args)
    [] stmt.k = "word" -> 2 * Len(stmt.args)
    [] stmt.k = "dword" -> 4 * Len(stmt.args)
    [] stmt.k = "ascii" -> TokenBytes(stmt.args)
    [] stmt.k = "asciiz" -> TokenBytes(stmt.args) + 1

DataDirectives == {"byte", "word", "dword", "ascii", "asciiz"}

(***************************************************************************)
(* C17: for every data directive the bytes Pass 2 emits are as many as     *)
(* Pass 1 advanced the location counter by: n for .byte with n elements,   *)
(* 2n for .word, 4n for .dword, the byte count of all tokens for .ascii,   *)
(* that count plus 1 for .asciiz, whose last byte is the single trailing   *)
(* zero; comment, label-only, origin and .res lines emit no bytes, and     *)
(* .res N advances the counter by exactly N.                               *)
(***************************************************************************)
C17_Pass1Step ==
  (pc = "pass1" /\ error' = Null) =>
    LET stmt == code[i].stmt IN
    /\ stmt.k \in DataDirectives => currentAddress' = currentAddress + DirectiveBytes(stmt)
    /\ stmt.k = "res" => currentAddress' = currentAddress + stmt.args[1].lo
    /\ stmt.k = "none" => currentAddress' = currentAddress

C17_Pass2Step ==
  (pc = "pass2" /\ error' = Null) =>
    LET stmt == code[Current.lineNumber].stmt IN
    IF Current.type = "directive" /\ stmt.k \in DataDirectives
    THEN /\ Len(machineCode') = Len(machineCode) + DirectiveBytes(stmt)
         /\ SubSeq(machineCode', 1, Len(machineCode)) = machineCode
         /\ stmt.k = "asciiz" => machineCode'[Len(machineCode')] = 0
    ELSE machineCode' = machineCode

C17_EmittedEqualsAdvance == [][C17_Pass1Step /\ C17_Pass2Step]_vars

\* .res, .asciiz and .dword assembled: no byte for .res, and the counter
\* past all three
C17_Witness ==
  /\ pc = "done" /\ result.error = Null
  /\ Len(code) = 3
  /\ code[1].stmt.k = "res" /\ code[2].stmt.k = "asciiz" /\ code[3].stmt.k = "dword"
  /\ Len(result.machineCode) = DirectiveBytes(code[2].stmt) + DirectiveBytes(code[3].stmt)
  /\ currentAddress = code[1].stmt.args[1].lo + Len(result.machineCode)
  /\ Len(result.machineCode) > 4

(***************************************************************************)
(* Blocks: sources made of two blocks, each starting with an origin        *)
(* directive.  Each block is assembled alone, then the two in either order *)
(***************************************************************************)
BlockSet ==
  { <<Org("", \h0200), Instr("s", "NOP", NoOperand), Instr("", "JMP", Operand("bare", Ident("s")))>>,
    <<Org("", \h00F0), Data("d", "byte", <<Hex(2, 0, 1)>>), Instr("", "LDA", Operand("bare", Ident("d")))>>,
    <<Org("", \h0300), Data("", "word", <<Hex(4, 0, \h1234)>>)>>,
    <<Org("", \h00FF), Instr("", "NOP", NoOperand)>>,
    <<Org("e", \h0400), Instr("", "LDA", Operand("bare", Ident("e")))>>,
    <<Org("", \h0500), Instr("", "JMP", Operand("bare", Ident("s")))>>,
    <<Org("", \h0200), LabelOnly("s"), Instr("t", "BNE", Operand("bare", Ident("s")))>> }

InitBlocks == InitWith(BlockSet)

\* the first call assembles a block, the second another block, every later
\* call the two blocks in one order or the other
BlockSources ==
  IF Len(returned) = 0 THEN BlockSet
  ELSE LET X == IF Len(returned) = 1 THEN returned[1].code ELSE returned[1].code
           Y == IF Len(returned) = 1 THEN code ELSE returned[2].code
       IN {X \o Y, Y \o X}

CallBlocks == AssembleAgain(BlockSources, MaxBlockCalls)

NextBlocks == Pass1 \/ Pass2 \/ CallBlocks

SpecBlocks == InitBlocks /\ [][NextBlocks]_vars

\* the identifiers the lines of a source use as values
UsedIn(src) == UNION {UsedIdents(src[k]) : k \in 1..Len(src)}

\* neither block references a label of the other
Independent(X, Y) ==
  /\ UsedIn(X) \cap DefinedLabels(Y) = {}
  /\ UsedIn(Y) \cap DefinedLabels(X) = {}

\* the origin directive that starts the block carries no label
UnlabelledOrigin(X) == X[1].stmt.k = "org" /\ X[1].label = ""

\* the two blocks have been assembled alone and the source is the two in
\* one order
TwoBlocks == pc = "done" /\ Len(returned) >= 2

BlockX == returned[1]

BlockY == returned[2]

\* some arrangement of the two blocks assembles
SomeOrderAssembles ==
  result.error = Null \/ \E k \in 3..Len(returned) : returned[k].result.error = Null

\* the blocks' bytes in the order of the source
Concatenation ==
  IF code = BlockX.code \o BlockY.code
  THEN BlockX.result.machineCode \o BlockY.result.machineCode
  ELSE BlockY.result.machineCode \o BlockX.result.machineCode

(***************************************************************************)
(* C18, as stated: if a source of blocks that each start with an origin    *)
(* directive (with or without a leading label) and do not reference each   *)
(* other's labels assembles, every permutation of the blocks assembles     *)
(* too, to the concatenation of the blocks' bytes in the new order.        *)
(***************************************************************************)
C18_AsStated ==
  (TwoBlocks /\ Independent(BlockX.code, BlockY.code) /\ SomeOrderAssembles) =>
    (result.error = Null /\ result.machineCode = Concatenation)

(***************************************************************************)
(* C18, amended: the same, for blocks whose origin directive carries no    *)
(* label.                                                                  *)
(***************************************************************************)
C18_BlockPermutation ==
  (/\ TwoBlocks
   /\ UnlabelledOrigin(BlockX.code) /\ UnlabelledOrigin(BlockY.code)
   /\ Independent(BlockX.code, BlockY.code)
   /\ SomeOrderAssembles) =>
    (result.error = Null /\ result.machineCode = Concatenation)

\* two blocks with labels assembled in one order, then in the other
C18_Witness ==
  /\ TwoBlocks /\ Len(returned) = 3
  /\ returned[3].code # code
  /\ returned[3].result.error = Null /\ result.error = Null
  /\ DefinedLabels(BlockX.code) # {} /\ DefinedLabels(BlockY.code) # {}
  /\ BlockX.code # BlockY.code
  /\ result.machineCode = Concatenation
  /\ returned[3].result.machineCode # result.machineCode

(***************************************************************************)
(* Blank and comment lines, given by their characters                      *)
(***************************************************************************)
BlankLines ==
  { Raw(<<>>),
    Raw(<<" ">>),
    Raw(<<"TAB", " ", "TAB">>),
    Raw(<<";">>),
    Raw(<<";", "x", ";">>),
    Raw(<<" ", "TAB", ";", "x">>),
    Raw(<<";", " ">>),
    Raw(<<"x">>),
    Raw(<<"x", "x", "x">>),
    Raw(<<" ", "x", " ", ";">>),
    Raw(<<"x", "x", "x", " ", "x">>) }

InitBlank == InitWith(Programs(BlankLines))

SpecBlank == InitBlank /\ [][Next]_vars

\* the line is empty, whitespace only, or its first non-blank character is ';'
BlankOrComment(cs) ==
  \/ \A k \in 1..Len(cs) : cs[k] \in {" ", "TAB"}
  \/ \E k \in 1..Len(cs) : cs[k] = ";" /\ \A m \in 1..(k - 1) : cs[m] \in {" ", "TAB"}

(***************************************************************************)
(* C19: a source consisting only of empty lines, whitespace-only lines and *)
(* lines whose first non-blank character is ';' (the empty string, a       *)
(* single empty line, included) assembles to machineCode = [] with         *)
(* error = null.                                                           *)
(***************************************************************************)
C19_BlankSource ==
  (pc = "done" /\ \A k \in 1..Len(code) : code[k].stmt.k = "raw" /\ BlankOrComment(code[k].stmt.args)) =>
    (result.error = Null /\ result.machineCode = <<>>)

\* an empty line, a whitespace-only line and an indented comment assembled
C19_Witness ==
  /\ pc = "done" /\ result.error = Null /\ result.machineCode = <<>>
  /\ Len(code) = 3
  /\ code[1].stmt.args = <<>>
  /\ code[2].stmt.args = <<"TAB", " ", "TAB">>
  /\ code[3].stmt.args = <<" ", "TAB", ";", "x">>

\* the empty string assembled
C19_WitnessEmptyString ==
  pc = "done" /\ code = <<Raw(<<>>)>> /\ result.error = Null /\ result.machineCode = <<>>

(***************************************************************************)
(* Letter case: a source assembled, then assembled again with the          *)
(* mnemonics of its instruction lines spelled in another case              *)
(***************************************************************************)
CaseSources ==
  { <<Org("", \h0200), Instr("", "lda", Operand("imm", Hex(2, 0, 1))), Instr("", "Nop", NoOperand)>>,
    <<Instr("p", "NOP", NoOperand), Instr("", "BNE", Operand("bare", Ident("p"))), Instr("", "JMP", Operand("bare", Ident("p")))>>,
    <<Instr("", "NOP", NoOperand), Instr("", "LDA", Operand("imm", Hex(3, 0, \h100)))>>,
    <<Instr("", "nop", NoOperand), Instr("", "jmp", Operand("bare", Ident("q")))>>,
    <<Instr("", "XYZ", NoOperand)>>,
    <<Instr("", "LDA", NoOperand), Instr("", "nop", NoOperand)>>,
    <<LabelOnly("p"), Instr("p", "Lda", Operand("imm", Hex(2, 0, 1)))>> }

InitCase == InitWith(CaseSources)

\* the spellings of a mnemonic that differ in letter case only
SpellingsOf(upper) == {upper} \cup {c[1] : c \in {d \in LowerCaseSpellings : d[2] = upper}}

SameLetters(m, n) == \E c \in LowerCaseSpellings : {m, n} \subseteq SpellingsOf(c[2])

\* line b is line a with its mnemonic, if it has one, in another case
RecasedLine(a, b) ==
  \/ a = b
  \/ /\ a.stmt.k = "instr" /\ b.stmt.k = "instr"
     /\ SameLetters(a.stmt.mn, b.stmt.mn)
     /\ b = [a EXCEPT !.stmt.mn = b.stmt.mn]

Recased(src, other) ==
  Len(src) = Len(other) /\ \A k \in 1..Len(src) : RecasedLine(src[k], other[k])

AllSpellings == UNION {SpellingsOf(c[2]) : c \in LowerCaseSpellings}

\* the sources that differ from src in the case of mnemonics only
Recasings(src) ==
  LET LinesOf(k) ==
        IF src[k].stmt.k = "instr"
        THEN {[src[k] EXCEPT !.stmt.mn = m] : m \in {n \in AllSpellings : SameLetters(n, src[k].stmt.mn)}}
        ELSE {src[k]}
  IN {other \in [1..Len(src) -> UNION {LinesOf(k) : k \in 1..Len(src)}] :
        \A k \in 1..Len(src) : other[k] \in LinesOf(k)}

CallCase == AssembleAgain(Recasings(code), MaxCalls)

NextCase == Pass1 \/ Pass2 \/ CallCase

SpecCase == InitCase /\ [][NextCase]_vars

\* an error without the source text it quotes
Unquoted(e) == [e EXCEPT !.originalLine = Comment]

(***************************************************************************)
(* C20, as stated: replacing the mnemonic of any instruction line by       *)
(* another case variant of the same letters yields identical machineCode   *)
(* and error.                                                              *)
(***************************************************************************)
C20_AsStated ==
  pc = "done" =>
    \A k \in 1..Len(returned) : Recased(returned[k].code, code) => returned[k].result = result

(***************************************************************************)
(* C20, amended: replacing the mnemonic of any instruction line by another *)
(* case variant of the same letters yields identical machineCode and the   *)
(* same error (line number and message), apart from the source text the    *)
(* error quotes.                                                           *)
(***************************************************************************)
C20_CaseInsensitive ==
  pc = "done" =>
    \A k \in 1..Len(returned) :
      Recased(returned[k].code, code) =>
        /\ returned[k].result.machineCode = result.machineCode
        /\ Unquoted(returned[k].result.error) = Unquoted(result.error)

\* lda / Nop assembled to bytes again as LDA / nOP
C20_Witness ==
  /\ pc = "done" /\ Len(returned) >= 1 /\ Len(code) = 3 /\ Len(returned[1].code) = 3
  /\ returned[1].code[2].stmt.k = "instr" /\ returned[1].code[3].stmt.k = "instr"
  /\ returned[1].code[2].stmt.mn = "lda" /\ code[2].stmt.mn = "LDA"
  /\ returned[1].code[3].stmt.mn = "Nop" /\ code[3].stmt.mn = "nOP"
  /\ result.error = Null /\ result.machineCode = returned[1].result.machineCode
  /\ Len(result.machineCode) = 3

(***************************************************************************)
(* Label addresses against the position of the bytes in machineCode        *)
(***************************************************************************)
\* the only origin directive is a leading unlabelled one, and no .res
LeadingOriginOnly(src) ==
  /\ src[1].stmt.k = "org" /\ src[1].label = ""
  /\ \A k \in 2..Len(src) : src[k].stmt.k \notin {"org", "res"}

\* the line that defines a label
DefinitionOf(src, name) == CHOOSE k \in 1..Len(src) : src[k].label = name

\* the number of bytes Pass 2 emits for the records of the lines before line ln
RECURSIVE EmittedBefore(_, _)
EmittedBefore(k, ln) ==
  IF k > Len(parsedLines) THEN 0
  ELSE (IF parsedLines[k].lineNumber < ln THEN Len(Pass2Line(parsedLines[k], labels).bytes) ELSE 0)
       + EmittedBefore(k + 1, ln)

(***************************************************************************)
(* C21: in a successfully assembled program whose only origin directive is *)
(* a leading .org O and which contains no .res, every label bound to       *)
(* address a has a - O equal to the number of machineCode bytes emitted    *)
(* for the lines preceding the label's definition.                         *)
(***************************************************************************)
C21_LabelAddressIsLoadAddress ==
  (pc = "done" /\ result.error = Null /\ LeadingOriginOnly(code)) =>
    \A name \in DOMAIN labels :
      labels[name] - code[1].stmt.v = EmittedBefore(1, DefinitionOf(code, name))

(***************************************************************************)
(* Indexed operands written with a label                                   *)
(***************************************************************************)
\* the documented zero-page-indexed entries, by index register
ZpIndexed(shape) ==
  {d \in documentedInstructions : d[2] = (IF shape = "x" THEN "zpx" ELSE "zpy")}

IndexedLines ==
  { Org("", \h0010), LabelOnly("d") }
  \cup { Instr("", d[1], Operand("x", Ident("d"))) : d \in ZpIndexed("x") }
  \cup { Instr("", d[1], Operand("y", Ident("d"))) : d \in ZpIndexed("y") }

InitIndexed == InitWith(Programs(IndexedLines))

SpecIndexed == InitIndexed /\ [][Next]_vars

\* IDENT,X or IDENT,Y on a mnemonic that has the zero-page-indexed mode, the
\* identifier bound at or below 0xFF
ZpIndexedOperand(mn, op) ==
  /\ op.shape \in {"x", "y"} /\ op.v.t = "id"
  /\ \E d \in ZpIndexed(op.shape) : d[1] = mn
  /\ Has(labels, op.v.name) /\ labels[op.v.name] <= 255

ZpIndexedOpcode(mn, op) == (CHOOSE d \in ZpIndexed(op.shape) : d[1] = mn)[3]

(***************************************************************************)
(* C22: for every mnemonic that has a zero-page,X or zero-page,Y variant   *)
(* (STX with ,Y and STY with ,X included), an operand IDENT,X / IDENT,Y    *)
(* whose identifier is bound to an address <= 0xFF assembles without error *)
(* to the zero-page-indexed opcode followed by the single address byte.    *)
(***************************************************************************)
C22_ZeroPageIndexedLabel ==
  pc = "done" =>
    /\ result.error # Null =>
         LET line == code[result.error.line] IN
         ~(line.stmt.k = "instr" /\ ZpIndexedOperand(line.stmt.mn, line.stmt.op))
    /\ result.error = Null =>
         \A k \in 1..Len(parsedLines) :
           (parsedLines[k].type = "instruction"
            /\ ZpIndexedOperand(parsedLines[k].mnemonic, parsedLines[k].operand)) =>
             Pass2Line(parsedLines[k], labels).bytes
               = <<ZpIndexedOpcode(parsedLines[k].mnemonic, parsedLines[k].operand),
                   labels[parsedLines[k].operand.v.name]>>

(***************************************************************************)
(* Accumulator operands, with and without a label named A                  *)
(***************************************************************************)
\* the accumulator opcodes (MOS 6502 opcode matrix)
AccumulatorOpcodes == [ASL |-> \h0A, LSR |-> \h4A, ROL |-> \h2A, ROR |-> \h6A]

AccumulatorLines ==
  { Org("", \h0300), LabelOnly("A"), LabelOnly("a"), Instr("", "NOP", NoOperand) }
  \cup { Instr("", mn, op) : mn \in DOMAIN AccumulatorOpcodes,
                             op \in {NoOperand, Operand("bare", Ident("A")), Operand("bare", Ident("a"))} }

InitAccumulator == InitWith(Programs(AccumulatorLines))

SpecAccumulator == InitAccumulator /\ [][Next]_vars

\* an operand that is empty or the single letter A in either case
AccumulatorOperand(op) ==
  op.shape = "none" \/ (op.shape = "bare" /\ op.v.t = "id" /\ op.v.name \in {"A", "a"})

(***************************************************************************)
(* C23: for ASL, LSR, ROL and ROR an operand that is empty or the single   *)
(* letter A (in either case) always assembles to the 1-byte accumulator    *)
(* opcode and advances the location counter by 1, including when the       *)
(* source defines a label named A (or a).                                  *)
(***************************************************************************)
C23_Step ==
  /\ (pc = "pass1" /\ code[i].stmt.k = "instr" /\ code[i].label = ""
      /\ code[i].stmt.mn \in DOMAIN AccumulatorOpcodes /\ AccumulatorOperand(code[i].stmt.op)) =>
       (error' = Null /\ currentAddress' = currentAddress + 1)
  /\ (pc = "pass2" /\ Current.type = "instruction"
      /\ Current.mnemonic \in DOMAIN AccumulatorOpcodes /\ AccumulatorOperand(Current.operand)) =>
       (error' = Null /\ machineCode' = machineCode \o <<AccumulatorOpcodes[Current.mnemonic]>>)

C23_Accumulator == [][C23_Step]_vars

(***************************************************************************)
(* Origin directives behind a label                                        *)
(***************************************************************************)
LabelledOriginLines ==
  { Org("", \h0200),
    OrgText("L", ".org", "", Hex(4, 0, \h0400), ""),
    OrgText("L", "*", "", Hex(3, 0, \h123), ""),
    OrgText("M", "*", "", Hex(1, 0, 8), ""),
    OrgText("M", ".org", "", Hex(2, 0, \h80), ""),
    LabelOnly("p"),
    Instr("", "NOP", NoOperand),
    Instr("", "JMP", Operand("bare", Ident("L"))),
    Data("p", "word", <<Ident("L"), Ident("M")>>) }

InitLabelledOrigin == InitWith(Programs(LabelledOriginLines))

SpecLabelledOrigin == InitLabelledOrigin /\ [][Next]_vars

\* L: .org $V  or  L: * = $V  with one to four hex digits
LabelledOrigin(line) ==
  /\ line.label # "" /\ line.stmt.k = "org" /\ line.stmt.form \in {".org", "*"}
  /\ line.stmt.before = "" /\ line.stmt.after = ""
  /\ line.stmt.args[1].t = "hex" /\ line.stmt.args[1].digits \in 1..4

(***************************************************************************)
(* C24: on a line  L: .org $V  or  L: * = $V  label L is bound to the      *)
(* value the location counter had before the line, the location counter is *)
(* V for the lines that follow, and the line emits no bytes.               *)
(***************************************************************************)
C24_Pass1Step ==
  (pc = "pass1" /\ LabelledOrigin(code[i]) /\ ~Has(labels, code[i].label)) =>
    /\ error' = Null
    /\ Has(labels', code[i].label) /\ labels'[code[i].label] = currentAddress
    /\ currentAddress' = code[i].stmt.v

C24_Pass2Step ==
  (pc = "pass2" /\ LabelledOrigin(code[Current.lineNumber])) =>
    (error' = Null /\ machineCode' = machineCode)

\* the line after a labelled origin starts at V
C24_NextLineAtV ==
  (pc = "pass1" /\ i > 1 /\ LabelledOrigin(code[i - 1])) => currentAddress = code[i - 1].stmt.v

C24_LabelledOrigin == [](C24_NextLineAtV) /\ [][C24_Pass1Step /\ C24_Pass2Step]_vars

\* .org $0200 / L: * = $123 / p: .word L, M failing or not: here the run
\* that binds L to $0200 and p to $0123
C24_Witness ==
  /\ pc = "done" /\ Len(code) = 3
  /\ code[2] = OrgText("L", "*", "", Hex(3, 0, \h123), "")
  /\ Has(labels, "L") /\ labels["L"] = \h0200
  /\ Has(labels, "p") /\ labels["p"] = \h0123

(***************************************************************************)
(* Origin directives, well formed and not                                  *)
(***************************************************************************)
\* what follows the keyword: $0400, $8, $12345, $ with no hex digit behind
\* it (as in $ZZ), a word that is no $ literal
OriginTokens == {Hex(4, 0, \h0400), Hex(1, 0, 8), Hex(5, 1, \h2345), Hex(0, 0, 0), BadVal}

OriginTexts ==
  { OrgText(l, form, before, tok, after) :
      l \in {"", "L"}, form \in {".org", "*"}, before \in {"", "x "}, tok \in OriginTokens,
      after \in {"", " x"} }

\* a line, an origin statement, a line
OriginSources ==
  { <<a, t, b>> : a \in {Instr("", "NOP", NoOperand), Org("", \h0200)}, t \in OriginTexts,
                  b \in {LabelOnly("p"), Instr("", "NOP", NoOperand)} }

InitOrigin == InitWith(OriginSources)

SpecOrigin == InitOrigin /\ [][Next]_vars

\* in its entirety  .org $H  or  * = $H  with H one to four hex digits
EntireOrigin(stmt) ==
  /\ stmt.form \in {".org", "*"} /\ stmt.before = "" /\ stmt.after = ""
  /\ stmt.args[1].t = "hex" /\ stmt.args[1].digits \in 1..4

(***************************************************************************)
(* C25: a statement is accepted as an origin directive only when, after    *)
(* label and comment removal, it is in its entirety  .org $H  or  * = $H   *)
(* with H being 1 to 4 hex digits; any other text is rejected with an      *)
(* error and never changes the location counter.                           *)
(***************************************************************************)
C25_Step ==
  (pc = "pass1" /\ code[i].stmt.k = "org" /\ ~EntireOrigin(code[i].stmt)) =>
    (error' # Null /\ pc' = "done" /\ currentAddress' = currentAddress)

C25_OriginSyntax == [][C25_Step]_vars

(***************************************************************************)
(* $ literals with characters that are no hex digits                       *)
(***************************************************************************)
\* $1G and $4Z, and $G which has no leading digit
OneG == HexThen(1, 0, 1, <<"G">>)

FourZ == HexThen(1, 0, 4, <<"Z">>)

JustG == HexThen(0, 0, 0, <<"G">>)

HexLiteralLines ==
  { Instr("", "NOP", NoOperand),
    Data("", "byte", <<Hex(2, 0, \h12)>>),
    Instr("", "LDA", Operand("imm", Hex(2, 0, \h42))) }
  \cup { Data("", d, <<v>>) : d \in {"byte", "word", "dword"}, v \in {OneG, JustG} }
  \cup { Data("", d, <<Str(<<"H">>), v>>) : d \in {"ascii", "asciiz"}, v \in {OneG, JustG} }
  \cup { Res("", v) : v \in {OneG, JustG} }
  \cup { Instr("", "LDA", Operand(s, v)) : s \in {"imm", "immlo", "immhi"}, v \in {FourZ, JustG} }

InitHexLiteral == InitWith(Programs(HexLiteralLines))

SpecHexLiteral == InitHexLiteral /\ [][Next]_vars

\* a $ literal with a character behind the $ that is no hex digit
NotAllHex(v) == v.t = "hex" /\ v.chars # <<>>

\* the line has such a literal as a directive element or an immediate operand
HasBadHexLiteral(line) ==
  \/ /\ line.stmt.k \in {"byte", "word", "dword", "res", "ascii", "asciiz"}
     /\ \E k \in 1..Len(line.stmt.args) : NotAllHex(line.stmt.args[k])
  \/ /\ line.stmt.k = "instr" /\ line.stmt.op.shape \in {"imm", "immlo", "immhi"}
     /\ NotAllHex(line.stmt.op.v)

(***************************************************************************)
(* C26: a value written with a leading $ is accepted only if every         *)
(* character after the $ is a hex digit: in .byte, .word, .dword, .res and *)
(* .ascii/.asciiz elements and in immediate operands, a $ literal          *)
(* containing a non-hex character makes assemble return an error instead   *)
(* of using the leading hex digits as the value.                           *)
(***************************************************************************)
C26_HexLiteralsAllHex ==
  (pc = "done" /\ \E k \in 1..Len(code) : HasBadHexLiteral(code[k])) => result.error # Null

(***************************************************************************)
(* Identifiers in .byte, .res and .ascii / .asciiz                         *)
(***************************************************************************)
Pass1IdentLines ==
  { Org("", \h0010),
    LabelOnly("f"),
    Instr("g", "NOP", NoOperand),
    Data("", "byte", <<Ident("f")>>),
    Data("", "byte", <<Hex(2, 0, \h12), Ident("g")>>),
    Data("f", "byte", <<Ident("f"), Dec(1, 0, 7)>>),
    Res("", Ident("f")),
    Res("g", Ident("g")),
    Data("", "ascii", <<Str(<<"H">>), Ident("f")>>),
    Data("g", "asciiz", <<Ident("g"), Str(<<"i">>)>>),
    Data("", "asciiz", <<Ident("g")>>) }

InitPass1Ident == InitWith(Programs(Pass1IdentLines))

SpecPass1Ident == InitPass1Ident /\ [][Next]_vars

\* the symbol table as the statement of line i finds it: the leading label
\* of the line is bound to the location counter
TableAtStatement ==
  IF code[i].label # "" THEN Set(labels, code[i].label, currentAddress) ELSE labels

\* the elements of the line that are identifiers TableAtStatement lacks
UnboundElements(line) ==
  {k \in 1..Len(line.stmt.args) :
     line.stmt.args[k].t = "id" /\ ~Has(TableAtStatement, line.stmt.args[k].name)}

\* the bytes an element stands for once its identifier is looked up
ElementBytes(v) ==
  CASE v.t = "id" -> <<TableAtStatement[v.name]>>
    [] v.t = "str" -> StringBytes(v.chars)
    [] OTHER -> <<ValInt(v)>>

\* Pass 1 is at a .byte / .res / .ascii / .asciiz line whose label, if any,
\* is new
AtPass1Directive ==
  /\ pc = "pass1" /\ code[i].stmt.k \in {"byte", "res", "ascii", "asciiz"}
  /\ ~(code[i].label # "" /\ Has(labels, code[i].label))

(***************************************************************************)
(* C27: identifiers in .byte elements, .res counts and .ascii/.asciiz      *)
(* numeric elements are resolved against the symbol table as it stands     *)
(* when Pass 1 reaches the line: a reference to a label defined only on a  *)
(* later line fails with a label-not-found error and empty output, a label *)
(* defined on an earlier line (or as the leading label of the same line)   *)
(* resolves to its bound address.                                          *)
(***************************************************************************)
C27_Step ==
  AtPass1Directive =>
    LET line == code[i]
        unbound == UnboundElements(line)
        first == CHOOSE k \in unbound : \A m \in unbound : k <= m
    IN IF unbound # {}
       THEN /\ pc' = "done"
            /\ result'.error.kind = "notfound" /\ result'.error.name = line.stmt.args[first].name
            /\ result'.error.line = i /\ result'.machineCode = <<>>
       ELSE /\ error'.kind # "notfound"
            /\ error' = Null =>
                 LET rec == parsedLines'[Len(parsedLines')] IN
                 IF line.stmt.k = "res"
                 THEN rec.size = ElementBytes(line.stmt.args[1])[1]
                      /\ currentAddress' = currentAddress + rec.size
                 ELSE rec.values = Flatten([k \in 1..Len(line.stmt.args) |-> ElementBytes(line.stmt.args[k])])

C27_Pass1Identifiers == [][C27_Step]_vars

\* f: / .byte $12, g  fails on g, defined on no earlier line, and
\* f: .byte f, 7  at $0010 stores 10 07
C27_Witness ==
  /\ pc = "done" /\ Len(code) = 3
  /\ code[2] = Data("f", "byte", <<Ident("f"), Dec(1, 0, 7)>>)
  /\ code[3] = Res("g", Ident("g"))
  /\ result.error = Null /\ result.machineCode = <<16, 7>>
  /\ labels["g"] = 18 /\ currentAddress = 36

C27_WitnessForward ==
  /\ pc = "done" /\ Len(code) = 2
  /\ code[1] = Data("", "byte", <<Hex(2, 0, \h12), Ident("g")>>)
  /\ code[2] = Instr("g", "NOP", NoOperand)
  /\ result.error.kind = "notfound" /\ result.error.name = "g"

(***************************************************************************)
(* Identifiers in .word and .dword                                         *)
(***************************************************************************)
WordIdentLines ==
  { Org("", \h0300),
    LabelOnly("w"),
    Instr("v", "NOP", NoOperand),
    Res("", Dec(5, 1, 4464)),
    Data("", "word", <<Ident("w")>>),
    Data("", "word", <<Hex(4, 0, \h1234), Ident("v")>>),
    Data("w", "word", <<Ident("w"), Ident("v")>>),
    Data("", "dword", <<Ident("w")>>),
    Data("v", "dword", <<Ident("w"), Hex(2, 0, \h12)>>) }

InitWordIdent == InitWith(Programs(WordIdentLines))

SpecWordIdent == InitWordIdent /\ [][Next]_vars

\* the value of an element in the final symbol table
FinalValue(v) == IF v.t = "id" THEN ToNum(labels[v.name]) ELSE [hi |-> v.hi, lo |-> v.lo]

\* Pass 2 is at a .word / .dword record with an identifier element, every
\* identifier of which is defined somewhere in the source
AtWordWithIdentifiers ==
  /\ pc = "pass2" /\ Current.type = "directive" /\ Current.directive \in {".word", ".dword"}
  /\ \E k \in 1..Len(Current.valueStrings) : Current.valueStrings[k].t = "id"
  /\ \A k \in 1..Len(Current.valueStrings) :
       Current.valueStrings[k].t = "id" => Has(labels, Current.valueStrings[k].name)

(***************************************************************************)
(* C28: each .word or .dword element that is an identifier is emitted as   *)
(* the address the label has in the final symbol table, whether the label  *)
(* is defined before or after the directive, and Pass 1 reserves 2 (resp.  *)
(* 4) bytes for the element in either case.                                *)
(***************************************************************************)
C28_Pass1Step ==
  (pc = "pass1" /\ code[i].stmt.k \in {"word", "dword"}
   /\ ~(code[i].label # "" /\ Has(labels, code[i].label))) =>
    /\ error' = Null
    /\ currentAddress' = currentAddress + Len(code[i].stmt.args) * (IF code[i].stmt.k = "word" THEN 2 ELSE 4)

C28_Pass2Step ==
  AtWordWithIdentifiers =>
    LET width == IF Current.directive = ".word" THEN 2 ELSE 4 IN
    /\ error' = Null
    /\ machineCode' = machineCode \o
         Flatten([k \in 1..Len(Current.valueStrings) |-> LittleEndian(FinalValue(Current.valueStrings[k]), width)])

C28_WordIdentifiers == [][C28_Pass1Step /\ C28_Pass2Step]_vars

\* the same for labels bound within 16 bits
C28_Within16 ==
  [][C28_Pass1Step /\
     ((\A n \in DOMAIN labels : labels[n] <= 65535) => C28_Pass2Step)]_vars

(***************************************************************************)
(* The low-byte and high-byte operators #< and #>                          *)
(***************************************************************************)
ByteOperatorLines ==
  { Org("", \h1234),
    Org("", \hFFFD),
    LabelOnly("t"),
    Instr("t", "NOP", NoOperand),
    Instr("", "LDA", Operand("immlo", Ident("t"))),
    Instr("", "LDA", Operand("immhi", Ident("t"))),
    Instr("", "LDX", Operand("immlo", Hex(4, 0, \hABCD))),
    Instr("", "LDY", Operand("immhi", Hex(4, 0, \hABCD))),
    Instr("", "CMP", Operand("immlo", Dec(5, 0, 65535))),
    Instr("", "ADC", Operand("immhi", Dec(3, 0, 300))),
    Instr("", "ORA", Operand("immhi", Hex(2, 0, \h7F))) }

InitByteOperator == InitWith(Programs(ByteOperatorLines))

SpecByteOperator == InitByteOperator /\ [][Next]_vars

\* Pass 2 is at an instruction with operand #<EXPR or #>EXPR, EXPR a hex
\* literal, a decimal literal or a label of the final symbol table
AtByteOperator ==
  /\ pc = "pass2" /\ Current.type = "instruction"
  /\ Current.operand.shape \in {"immlo", "immhi"}
  /\ Current.operand.v.t \in {"hex", "dec", "id"}
  /\ Current.operand.v.t = "hex" => (Current.operand.v.digits >= 1 /\ Current.operand.v.chars = <<>>)
  /\ Current.operand.v.t = "id" => Has(labels, Current.operand.v.name)

\* the value of EXPR
ExprValue(v) == IF v.t = "id" THEN labels[v.name] ELSE ValInt(v)

\* the immediate opcode of a mnemonic (MOS 6502 opcode matrix)
ImmediateOpcode(mn) == (CHOOSE d \in documentedInstructions : d[1] = mn /\ d[2] = "imm")[3]

\* the operand byte Pass 2 produces for the same EXPR under an operator
OperandByte(shape) ==
  Pass2Instruction([Current EXCEPT !.operand.shape = shape], labels).bytes[2]

(***************************************************************************)
(* C29: for any hex literal, decimal literal or label EXPR with value v in *)
(* 0..65535 the operand #<EXPR emits the byte v & 0xFF and #>EXPR emits    *)
(* (v >> 8) & 0xFF, so that lo + 256 * hi = v; both forms accept labels    *)
(* defined later in the source and never raise a range error for v > 255.  *)
(***************************************************************************)
C29_Step ==
  (AtByteOperator /\ ExprValue(Current.operand.v) \in 0..65535) =>
    LET v == ExprValue(Current.operand.v) IN
    /\ error' = Null
    /\ machineCode' = machineCode \o
         <<ImmediateOpcode(Current.mnemonic), IF Current.operand.shape = "immlo" THEN v % 256 ELSE v \div 256>>
    /\ OperandByte("immlo") + 256 * OperandByte("immhi") = v

C29_LowHighByte == [][C29_Step]_vars

\* .org $1234 / LDA #>t / t: NOP : the forward label t = $1236 gives A9 12
C29_Witness ==
  /\ pc = "done" /\ Len(code) = 3
  /\ code[2] = Instr("", "LDA", Operand("immhi", Ident("t")))
  /\ code[3] = Instr("t", "NOP", NoOperand)
  /\ result.error = Null /\ result.machineCode = <<\hA9, \h12, \hEA>>

\* LDA #<t with t bound above 255, behind the origin $FFFD
C29_WitnessLow ==
  /\ pc = "done" /\ Len(code) = 3
  /\ code[1] = Org("", \hFFFD)
  /\ code[2] = Instr("", "LDA", Operand("immlo", Ident("t")))
  /\ result.error = Null /\ result.machineCode = <<\hA9, \hFF, \hEA>>

(***************************************************************************)
(* Sources with several erroneous lines                                    *)
(***************************************************************************)
ErroneousLines ==
  { Instr("", "NOP", NoOperand),
    LabelOnly("a"),
    Res("a", Dec(3, 0, 200)),
    Junk(""),
    Instr("", "XYZ", NoOperand),
    Data("", "byte", <<Dec(3, 0, 256)>>),
    Res("", Ident("u")),
    Instr("", "LDA", Operand("imm", Hex(3, 0, \h100))),
    Instr("", "JMP", Operand("bare", Ident("u"))),
    Data("", "word", <<Hex(5, 1, \h2345)>>),
    Instr("", "BNE", Operand("bare", Ident("a"))) }

InitErroneous == InitWith(Programs(ErroneousLines))

SpecErroneous == InitErroneous /\ [][Next]_vars

\* line k fails a Pass 1 check: syntax, unknown mnemonic or addressing mode,
\* duplicate label, .byte / .res / .ascii value
FailsPass1(src, k) ==
  LET line == src[k] IN
  \/ line.stmt.k = "junk"
  \/ line.stmt.k = "instr" /\ ~Admits(line.stmt.mn, line.stmt.op)
  \/ line.label # "" /\ \E m \in 1..(k - 1) : src[m].label = line.label
  \/ /\ line.stmt.k \in {"byte", "res", "ascii", "asciiz"}
     /\ \E e \in 1..Len(line.stmt.args) :
          LET v == line.stmt.args[e] IN
          \/ v.t = "id" /\ ~DefinedBefore(src, k, v.name)
          \/ v.t \in {"hex", "dec"} /\ line.stmt.k # "res" /\ ValInt(v) > 255

\* line k carries an error only Pass 2 detects: undefined operand label,
\* operand or .word / .dword range, branch range (the branch is at the
\* address its record holds)
FailsPass2(src, k) ==
  LET line == src[k] IN
  \/ /\ line.stmt.k = "instr"
     /\ \/ line.stmt.op.v.t = "id" /\ line.stmt.op.v.name \notin DefinedLabels(src)
        \/ line.stmt.op.shape = "imm" /\ line.stmt.op.v.t \in {"hex", "dec"} /\ ValInt(line.stmt.op.v) > 255
        \/ /\ line.stmt.mn \in BranchMnemonics /\ line.stmt.op.v.name \in DOMAIN labels
           /\ \E r \in 1..Len(parsedLines) :
                /\ parsedLines[r].lineNumber = k /\ parsedLines[r].type = "instruction"
                /\ labels[line.stmt.op.v.name] - (parsedLines[r].address + 2) \notin -128..127
  \/ /\ line.stmt.k \in {"word", "dword"}
     /\ \E e \in 1..Len(line.stmt.args) :
          LET v == line.stmt.args[e] IN
          \/ v.t = "id" /\ v.name \notin DefinedLabels(src)
          \/ v.t \in {"hex", "dec"} /\ line.stmt.k = "word" /\ ValInt(v) > 65535

Lowest(S) == CHOOSE k \in S : \A m \in S : k <= m

(***************************************************************************)
(* C30: when a source contains several erroneous lines, the single error   *)
(* reported is that of the lowest-numbered line failing a Pass 1 check if  *)
(* any line fails one, even when an earlier line carries an error          *)
(* detectable only in Pass 2; a Pass 2 error is reported only when no line *)
(* fails Pass 1, and it is then that of the lowest-numbered failing line.  *)
(***************************************************************************)
C30_FirstErrorByPass ==
  pc = "done" =>
    LET failing1 == {k \in 1..Len(code) : FailsPass1(code, k)}
        failing2 == {k \in 1..Len(code) : FailsPass2(code, k)}
    IN IF failing1 # {}
       THEN result.error # Null /\ result.error.pass = 1 /\ result.error.line = Lowest(failing1)
       ELSE IF failing2 # {}
       THEN result.error # Null /\ result.error.pass = 2 /\ result.error.line = Lowest(failing2)
       ELSE result.error = Null

\* LDA #$100 / .word $12345 / .byte 256 : the error is the one of line 3
C30_Witness ==
  /\ pc = "done" /\ Len(code) = 3
  /\ FailsPass2(code, 1) /\ FailsPass2(code, 2) /\ FailsPass1(code, 3)
  /\ ~FailsPass1(code, 1) /\ ~FailsPass1(code, 2)
  /\ result.error.line = 3 /\ result.error.pass = 1

\* NOP / .word $12345 / JMP u : no Pass 1 failure, the error is the one of
\* line 2
C30_WitnessPass2 ==
  /\ pc = "done" /\ Len(code) = 3
  /\ \A k \in 1..3 : ~FailsPass1(code, k)
  /\ ~FailsPass2(code, 1) /\ FailsPass2(code, 2) /\ FailsPass2(code, 3)
  /\ result.error.line = 2 /\ result.error.pass = 2

====
